---- MODULE Spec2Model ----
(***************************************************************************)
(* Model of the my_stock scan engine's data layer.                         *)
(*                                                                         *)
(* Panel Store (core/data_loader.py): the daily snapshot directories of    *)
(* one market, the persisted merged panel ("<market>_merged.parquet") and  *)
(* the two update functions that fold snapshots into it.                   *)
(* Universe Selector (core/universe.py): apply_top_n as a pure function.   *)
(*                                                                         *)
(* Text cells are kept as text: a ticker is the string of the CSV cell and *)
(* is zero-padded by zfill as the code does; a date cell is the text of    *)
(* the CSV cell and is parsed by a table-driven to_datetime that yields    *)
(* NaT (or raises) on text that is not a date.  A parsed date is the       *)
(* ordinal of the day, 1..MaxDay.                                          *)
(***************************************************************************)
EXTENDS Integers, Sequences, FiniteSets, TLC

(***************************************************************************)
(* Bounds of the model.                                                    *)
(***************************************************************************)
MaxDay == 2          \* calendar days a snapshot can be tagged with
MaxRows == 1         \* rows in one snapshot file
MaxArrivals == 2     \* snapshot files written over a run
MaxUniRows == 3      \* rows of a panel handed to the universe selector
MaxTopN == 3         \* greatest top_n asked for

(***************************************************************************)
(* Program constants.                                                      *)
(***************************************************************************)
TickerWidth == 6     \* str.zfill(6)

Days == 1..MaxDay
NaT == 0

\* The text of a day in the two formats the snapshot writers use.
YmdText == <<"20260105", "20260106", "20260107", "20260108", "20260109">>
IsoText == <<"2026-01-05", "2026-01-06", "2026-01-07", "2026-01-08", "2026-01-09">>
GarbageText == "n/a"

\* Ticker cells as they may stand in a CSV, and the canonical tickers in
\* the order in which pandas sorts their strings.
RawTickers == {"005930", "660"}
TickerOrder == <<"000660", "005930", "035420">>
Closes == {0, 1, 2}

(***************************************************************************)
(* Cell conversions.                                                       *)
(***************************************************************************)
RECURSIVE zfill(_, _)
zfill(s, w) == IF Len(s) >= w THEN s ELSE zfill("0" \o s, w)

Zfill(s) == zfill(s, TickerWidth)

\* pd.to_datetime(cell.astype("string"), format="%Y%m%d", errors="coerce")
ParseYmd(t) ==
    IF \E d \in Days : YmdText[d] = t
    THEN CHOOSE d \in Days : YmdText[d] = t
    ELSE NaT

\* pd.to_datetime(cell) with no format: parses either notation, raises on
\* text that is no date.  CanParse tells whether it raises.
CanParse(t) == \E d \in Days : YmdText[d] = t \/ IsoText[d] = t

ParseAny(t) == CHOOSE d \in Days : YmdText[d] = t \/ IsoText[d] = t

\* Timestamp.strftime("%Y%m%d")
Strftime(d) == YmdText[d]

\* Order of two "YYYYMMDD" strings under Python's string comparison.
TagOrd(t) == CHOOSE d \in 1..Len(YmdText) : YmdText[d] = t

TagLeq(a, b) == TagOrd(a) <= TagOrd(b)

TickerRank(t) == CHOOSE i \in 1..Len(TickerOrder) : TickerOrder[i] = t

(***************************************************************************)
(* Data frames: a frame is a sequence of rows, a row a record              *)
(* [ticker, date, close].                                                  *)
(***************************************************************************)
RECURSIVE Concat(_)
Concat(chunks) ==
    IF chunks = <<>> THEN <<>> ELSE Head(chunks) \o Concat(Tail(chunks))

MapRows(rows, F(_)) == [i \in 1..Len(rows) |-> F(rows[i])]

\* the indices of rows that satisfy Keep, in order
RECURSIVE KeepIdx(_, _, _)
KeepIdx(rows, Keep(_), i) ==
    IF i > Len(rows) THEN <<>>
    ELSE (IF Keep(i) THEN <<rows[i]>> ELSE <<>>) \o KeepIdx(rows, Keep, i + 1)

\* (variant: drop_duplicates without the subset, rows compared whole)
SameKeyWholeRow(a, b) == a = b

\* the subset=["date","ticker"] of drop_duplicates
SameKey(a, b) == a.date = b.date /\ a.ticker = b.ticker

\* (variant: the frame is not deduplicated)
DropDuplicatesNone(rows) == rows

\* (variant: keep="first")
DropDuplicatesKeepFirst(rows) ==
    LET Keep(i) == ~ \E j \in 1..(i - 1) : SameKey(rows[i], rows[j])
    IN  KeepIdx(rows, Keep, 1)

\* DataFrame.drop_duplicates(subset=["date","ticker"], keep="last")
DropDuplicatesKeepLast(rows) ==
    LET Keep(i) == ~ \E j \in (i + 1)..Len(rows) : SameKey(rows[i], rows[j])
    IN  KeepIdx(rows, Keep, 1)

\* DataFrame.dropna(subset=["date"])
DropNaDate(rows) == SelectSeq(rows, LAMBDA r : r.date # NaT)

\* df[df["close"] > 0]
ClosePositive(rows) == SelectSeq(rows, LAMBDA r : r.close > 0)

RowLeq(a, b) ==
    \/ TickerRank(a.ticker) < TickerRank(b.ticker)
    \/ a.ticker = b.ticker /\ a.date <= b.date

RECURSIVE Insert(_, _)
Insert(r, sorted) ==
    IF sorted = <<>> THEN <<r>>
    ELSE IF RowLeq(Head(sorted), r) THEN <<Head(sorted)>> \o Insert(r, Tail(sorted))
    ELSE <<r>> \o sorted

\* DataFrame.sort_values(["ticker","date"]).reset_index(drop=True)
RECURSIVE SortValues(_)
SortValues(rows) ==
    IF rows = <<>> THEN <<>>
    ELSE Insert(rows[Len(rows)], SortValues(SubSeq(rows, 1, Len(rows) - 1)))

ZfillRow(r) == [r EXCEPT !.ticker = Zfill(r.ticker)]

(***************************************************************************)
(* State.                                                                  *)
(*   krx, yf   the two snapshot directories of the market: per day tag,    *)
(*             the file data/daily/<market>/krx_ohlcv_<tag>.csv and the    *)
(*             file data/daily/<market>/ohlcv_<tag>.csv                    *)
(*   cache     data/cache/<market>_merged.parquet, the persisted panel     *)
(*   ret       what the last operation handed to its caller                *)
(*   prev      cache and ret as they were before the last operation        *)
(*   arrivals  number of snapshot files written so far                     *)
(*   uni       the last call of apply_top_n: its arguments and its result  *)
(***************************************************************************)
VARIABLES krx, yf, cache, ret, prev, arrivals, uni, scan, sigs, app, daily, io

vars == <<krx, yf, cache, ret, prev, arrivals, uni, scan, sigs, app, daily, io>>

storeVars == <<krx, yf, cache, ret, prev, arrivals>>

NoFile == [exists |-> FALSE, schema |-> TRUE, rows |-> <<>>]

NoCache == [exists |-> FALSE, rows |-> <<>>]

File(schema, rows) == [exists |-> TRUE, schema |-> schema, rows |-> rows]

MsgLoaded == "loaded existing cache (daily empty)"
MsgNoData == "no daily files and no cache parquet"
MsgEmpty == "merged is empty"
MsgOk == "ok"

\* a normal return of (df, CacheUpdateResult); wrote tells whether the
\* operation rewrote the parquet file
Return(op, panel, ok, message, wrote) ==
    [op |-> op, kind |-> "return", exc |-> "", panel |-> panel,
     ok |-> ok, message |-> message, wrote |-> wrote]

\* a return of the parquet path only (no panel handed back)
ReturnPath(op, wrote) ==
    [op |-> op, kind |-> "path", exc |-> "", panel |-> <<>>,
     ok |-> TRUE, message |-> "", wrote |-> wrote]

Raise(op, exc) ==
    [op |-> op, kind |-> "raise", exc |-> exc, panel |-> <<>>,
     ok |-> FALSE, message |-> "", wrote |-> FALSE]

NoRet(op) ==
    [op |-> op, kind |-> "none", exc |-> "", panel |-> <<>>,
     ok |-> FALSE, message |-> "", wrote |-> FALSE]

\* the days of a set in ascending order: sorted(dir.glob(...)) over names
\* that differ in their date tag only
RECURSIVE SortedDays(_)
SortedDays(S) ==
    IF S = {} THEN <<>>
    ELSE LET m == CHOOSE d \in S : \A e \in S : d <= e
         IN  <<m>> \o SortedDays(S \ {m})

\* _list_daily_csvs
ListDailyCsvs(k) == SortedDays({d \in Days : k[d].exists})

\* _extract_date_from_filename
ExtractDateFromFilename(d) == YmdText[d]

\* _read_daily_csv, for a file that has the required columns
ReadDailyCsv(f) ==
    DropNaDate(MapRows(f.rows,
        LAMBDA r : [ticker |-> Zfill(r.ticker), date |-> ParseYmd(r.date),
                    close |-> r.close]))

\* the set of "YYYYMMDD" strings of the cached dates
CachedDates(c) ==
    IF c.exists
    THEN {Strftime(c.rows[i].date) : i \in {j \in 1..Len(c.rows) : c.rows[j].date # NaT}}
    ELSE {}

\* "Find new files (by date)"
NewFiles(k, c) ==
    SelectSeq(ListDailyCsvs(k),
              LAMBDA d : ExtractDateFromFilename(d) \notin CachedDates(c))

\* the branch "daily empty, cache present": the cache is loaded, normalised
\* and filtered, and nothing is written
LoadExistingCache(c) ==
    [cache |-> c,
     ret |-> Return("UPC",
                 SortValues(ClosePositive(DropNaDate(MapRows(c.rows, ZfillRow)))),
                 TRUE, MsgLoaded, FALSE)]

\* (variant: the no-data branch reports success)
NoDataReturnOk(c) ==
    [cache |-> c, ret |-> Return("UPC", <<>>, TRUE, MsgOk, FALSE)]

\* the branch "no daily files and no cache": an empty frame and ok=False
NoDataReturn(c) ==
    [cache |-> c, ret |-> Return("UPC", <<>>, FALSE, MsgNoData, FALSE)]

\* (variant: the cache is rewritten on every call)
PersistAlways(new_files) == TRUE

\* "if new_files: merged.to_parquet(cache_path)"
PersistCache(new_files) == new_files # <<>>

\* update_parquet_cache_for_market: the persisted panel it leaves and
\* what it returns
UpdateParquetCacheForMarket(k, c) ==
    LET daily_files == ListDailyCsvs(k)
        cached == IF c.exists THEN c.rows ELSE <<>>
        existing_rows == Len(cached)
        new_files == NewFiles(k, c)
        new_df == Concat([i \in 1..Len(new_files) |-> ReadDailyCsv(k[new_files[i]])])
        merged0 == IF new_files # <<>>
                   THEN (IF existing_rows # 0 THEN cached \o new_df ELSE new_df)
                   ELSE cached
        merged == SortValues(DropDuplicatesKeepLast(
                      DropNaDate(MapRows(merged0, ZfillRow))))
    IN  IF daily_files = <<>>
        THEN IF c.exists THEN LoadExistingCache(c) ELSE NoDataReturn(c)
        ELSE IF \E i \in 1..Len(new_files) : ~ k[new_files[i]].schema
        THEN [cache |-> c, ret |-> Raise("UPC", "ValueError")]
        ELSE IF merged0 = <<>>
        THEN [cache |-> c, ret |-> Return("UPC", <<>>, FALSE, MsgEmpty, FALSE)]
        ELSE [cache |-> IF PersistCache(new_files)
                        THEN [exists |-> TRUE, rows |-> merged] ELSE c,
              ret |-> Return("UPC", ClosePositive(merged), TRUE, MsgOk,
                             PersistCache(new_files))]

None == ""

\* _latest_daily_yyyymmdd: the greatest tag among the ohlcv_*.csv files
LatestDailyYyyymmdd(y) ==
    LET S == {d \in Days : y[d].exists}
    IN  IF S = {} THEN None
        ELSE YmdText[CHOOSE d \in S : \A e \in S : e <= d]

\* _parquet_max_yyyymmdd: the greatest date of the persisted panel
ParquetMaxYyyymmdd(c) ==
    LET S == {c.rows[i].date : i \in 1..Len(c.rows)} \ {NaT}
    IN  IF ~ c.exists \/ c.rows = <<>> \/ S = {} THEN None
        ELSE Strftime(CHOOSE d \in S : \A e \in S : e <= d)

\* the files the incremental loop does not skip: those tagged after pq_max
FilesAfter(y, pq_max) ==
    SelectSeq(SortedDays({d \in Days : y[d].exists}),
              LAMBDA d : ~ (pq_max # None /\ TagLeq(YmdText[d], pq_max)))

\* pd.read_csv + to_datetime + zfill of one ohlcv_*.csv
ReadYfCsv(f) ==
    MapRows(f.rows,
        LAMBDA r : [ticker |-> Zfill(r.ticker), date |-> ParseAny(r.date),
                    close |-> r.close])

\* whether reading the file raises: a missing column (KeyError) or a date
\* cell that to_datetime cannot parse (ValueError)
YfReadRaises(f) ==
    \/ ~ f.schema
    \/ \E i \in 1..Len(f.rows) : ~ CanParse(f.rows[i].date)

\* update_merged_parquet_from_daily (the definition in force, the second
\* of the module)
UpdateMergedParquetFromDaily(y, c) ==
    LET latest_daily == LatestDailyYyyymmdd(y)
        pq_max == ParquetMaxYyyymmdd(c)
        base == IF c.exists THEN MapRows(c.rows, ZfillRow) ELSE <<>>
        read == SelectSeq(FilesAfter(y, pq_max), LAMBDA d : y[d].rows # <<>>)
        parts == [i \in 1..Len(read) |-> ReadYfCsv(y[read[i]])]
        merged == SortValues(DropDuplicatesKeepLast(base \o Concat(parts)))
    IN  IF latest_daily = None
        THEN [cache |-> c, ret |-> ReturnPath("UMP", FALSE)]
        ELSE IF pq_max # None /\ TagLeq(latest_daily, pq_max)
        THEN [cache |-> c, ret |-> ReturnPath("UMP", FALSE)]
        ELSE IF \E i \in 1..Len(read) : YfReadRaises(y[read[i]])
        THEN [cache |-> c,
              ret |-> Raise("UMP", IF \E i \in 1..Len(read) :
                                        /\ ~ y[read[i]].schema
                                        /\ \A j \in 1..(i - 1) : ~ YfReadRaises(y[read[j]])
                                   THEN "KeyError" ELSE "ValueError")]
        ELSE IF parts = <<>>
        THEN [cache |-> c, ret |-> ReturnPath("UMP", FALSE)]
        ELSE [cache |-> [exists |-> TRUE, rows |-> merged],
              ret |-> ReturnPath("UMP", TRUE)]

\* load_all_markets, for one market: update_merged_parquet_from_daily and
\* then load_market_data (= update_parquet_cache_for_market)
LoadAllMarkets(k, y, c) ==
    LET u == UpdateMergedParquetFromDaily(y, c)
        l == UpdateParquetCacheForMarket(k, u.cache)
    IN  IF u.ret.kind = "raise"
        THEN [cache |-> u.cache, ret |-> [u.ret EXCEPT !.op = "LoadAll"]]
        ELSE [cache |-> l.cache,
              ret |-> [l.ret EXCEPT !.op = "LoadAll",
                                    !.wrote = u.ret.wrote \/ l.ret.wrote]]

(***************************************************************************)
(* Snapshot files.                                                         *)
(***************************************************************************)
\* all sequences over S of length at most n
RECURSIVE SeqUpTo(_, _)
SeqUpTo(S, n) ==
    IF n = 0 THEN {<<>>}
    ELSE LET shorter == SeqUpTo(S, n - 1)
         IN  shorter \cup {Append(q, x) : q \in {p \in shorter : Len(p) = n - 1}, x \in S}

\* The rows of krx_ohlcv_<tag>.csv.  The writer stamps the tag into the
\* date column of every row (_normalize_columns); a cell that does not
\* parse and a ticker that lost its leading zeros are the defects
\* _read_daily_csv guards against.
KrxRows(d) ==
    [ticker : RawTickers, date : {YmdText[d], GarbageText}, close : Closes]

\* The rows of ohlcv_<tag>.csv.  The writer takes the date of a row from
\* the index the data provider returned (_download_day_long), not from
\* the tag.
YfRows ==
    [ticker : RawTickers, date : {IsoText[e] : e \in Days}, close : Closes]

\* a file that lacks a required column
Malformed == File(FALSE, <<[ticker |-> "005930", date |-> GarbageText, close |-> 1]>>)

KrxContents(d) == {File(TRUE, q) : q \in SeqUpTo(KrxRows(d), MaxRows)} \cup {Malformed}

\* a file with a date cell that is no date
Unparseable == File(TRUE, <<[ticker |-> "005930", date |-> GarbageText, close |-> 1]>>)

YfContents ==
    {File(TRUE, q) : q \in SeqUpTo(YfRows, MaxRows)} \cup {Malformed, Unparseable}

(***************************************************************************)
(* Actions of the Panel Store.                                             *)
(***************************************************************************)
\* download_daily_one_market writes krx_ohlcv_<tag>.csv: a first download,
\* or a forced one that replaces the file
ArriveKrx ==
    /\ arrivals < MaxArrivals
    /\ \E d \in Days : \E f \in KrxContents(d) :
          krx' = [krx EXCEPT ![d] = f]
    /\ arrivals' = arrivals + 1
    /\ ret' = NoRet("arrive")
    /\ prev' = [cache |-> cache, ret |-> NoRet("arrive")]
    /\ UNCHANGED <<yf, cache, uni, scan, sigs, app, daily, io>>

\* download_daily_snapshot writes ohlcv_<tag>.csv unless a file of more
\* than 50 bytes (one that holds rows) is already there
ArriveYf ==
    /\ arrivals < MaxArrivals
    /\ \E d \in Days : \E f \in YfContents :
          /\ ~ yf[d].exists \/ yf[d].rows = <<>>
          /\ yf' = [yf EXCEPT ![d] = f]
    /\ arrivals' = arrivals + 1
    /\ ret' = NoRet("arrive")
    /\ prev' = [cache |-> cache, ret |-> NoRet("arrive")]
    /\ UNCHANGED <<krx, cache, uni, scan, sigs, app, daily, io>>

Apply(r) ==
    /\ cache' = r.cache
    /\ ret' = r.ret
    /\ prev' = [cache |-> cache, ret |-> ret]
    /\ UNCHANGED <<krx, yf, arrivals, uni, scan, sigs, app, daily, io>>

\* load_market_data(market)
LoadMarketData == Apply(UpdateParquetCacheForMarket(krx, cache))

\* update_merged_parquet_from_daily(market, DATA_DIR)
UpdateMerged == Apply(UpdateMergedParquetFromDaily(yf, cache))

\* load_all_markets()
LoadAll == Apply(LoadAllMarkets(krx, yf, cache))

NoUni ==
    [called |-> FALSE, df |-> <<>>, cols |-> {}, top_n |-> [none |-> TRUE, n |-> 0],
     rank_by |-> "", res |-> [kind |-> "none"]]

\* no strategy has scanned yet
NoScan == [called |-> FALSE]

\* scan_signature has not been called yet
NoSigs == [called |-> FALSE]

\* a directory scan_cache without files, a session without scan_sig
EmptyDir == [k \in {} |-> 0]

\* the value None of a cached frame or dict
NoValue == [none |-> TRUE, data |-> <<>>]

\* no call of try_run_daily_once_async yet: no lock file, no done marker,
\* no snapshot of the day
NoDaily ==
    [lock |-> FALSE, done |-> FALSE,
     files |-> [KOSPI |-> [exists |-> FALSE, rows |-> 0],
               KOSDAQ |-> [exists |-> FALSE, rows |-> 0]],
     triggers |-> [t \in {1, 2} |-> "idle"], workers |-> <<>>, calls |-> 0,
     last |-> [kind |-> "none"]]

\* a path with no directory entry
AbsentFile == [state |-> "absent", data |-> <<>>, writing |-> {}, mixed |-> FALSE]

\* two processes before their first step: no panel, no cache entry, and of
\* the daily snapshots only the one of day 1
NoIo ==
    [files |-> [panel |-> AbsentFile, scan |-> AbsentFile, levels |-> AbsentFile,
                snapshot |-> AbsentFile],
     procs |-> [p \in {1, 2} |->
                  [job |-> "none", pc |-> "idle",
                   cached |-> [none |-> TRUE, data |-> <<>>],
                   cached_levels |-> [none |-> TRUE, data |-> <<>>],
                   file |-> "", pending |-> <<>>, levels |-> <<>>]],
     last |-> [kind |-> "none"]]

NoApp ==
    [scans |-> EmptyDir, levels |-> EmptyDir, scan_sig |-> {}, scan_df |-> NoValue,
     scan_levels |-> EmptyDir, runs |-> 0, last |-> [kind |-> "none"]]

Init ==
    /\ krx = [d \in Days |-> NoFile]
    /\ yf = [d \in Days |-> NoFile]
    /\ cache = NoCache
    /\ ret = NoRet("init")
    /\ prev = [cache |-> NoCache, ret |-> NoRet("init")]
    /\ arrivals = 0
    /\ uni = NoUni
    /\ scan = NoScan
    /\ sigs = NoSigs
    /\ app = NoApp
    /\ daily = NoDaily
    /\ io = NoIo

Next ==
    \/ ArriveKrx
    \/ ArriveYf
    \/ LoadMarketData
    \/ UpdateMerged
    \/ LoadAll

Spec == Init /\ [][Next]_vars

TypeOK ==
    /\ arrivals \in 0..MaxArrivals
    /\ cache.exists \in BOOLEAN
    /\ ret.kind \in {"none", "return", "path", "raise"}

(***************************************************************************)
(* Properties of the Panel Store.                                          *)
(***************************************************************************)
Keys(rows) == {<<Zfill(rows[i].ticker), rows[i].date>> : i \in 1..Len(rows)}

\* the operation op has just run for the second time in a row, with no
\* snapshot written in between, and returned normally both times
Repeated(op) ==
    /\ ret.op = op /\ ret.kind # "raise"
    /\ prev.ret.op = op /\ prev.ret.kind # "raise"

\* C1: merging is idempotent.  When an update runs again over the same
\* snapshots right after it has merged them, the persisted panel is the
\* one the first run left (the same Bars, in the same order) and the
\* panel handed back is the one handed back before.
C1_IdempotentMerge ==
    /\ Repeated("UPC") => cache = prev.cache /\ ret.panel = prev.ret.panel
    /\ Repeated("UMP") => cache = prev.cache
    /\ Repeated("LoadAll") => cache = prev.cache /\ ret.panel = prev.ret.panel

\* a second update_merged_parquet_from_daily that read the snapshots again
\* and rewrote the panel the first one had written
C1_Witness ==
    /\ Repeated("UMP") /\ ret.wrote /\ prev.ret.wrote
    /\ cache.rows # <<>>

\* the rows the last update read from the snapshots it took as new, in the
\* order of their concatenation after the cached rows
MergedRows ==
    IF ret.op = "UPC"
    THEN LET nf == NewFiles(krx, prev.cache)
         IN  Concat([i \in 1..Len(nf) |-> ReadDailyCsv(krx[nf[i]])])
    ELSE LET rd == SelectSeq(FilesAfter(yf, ParquetMaxYyyymmdd(prev.cache)),
                             LAMBDA d : yf[d].rows # <<>>)
         IN  Concat([i \in 1..Len(rd) |-> ReadYfCsv(yf[rd[i]])])

\* C2: dedup keeps last.  After an update that merged snapshots, the
\* persisted panel's row for every key a merged snapshot holds is the row
\* of the snapshot merged last for that key, whatever row the panel or an
\* earlier snapshot held for it; the panel handed back holds no other row
\* for that key.
C2_DedupKeepsLast ==
    (ret.op \in {"UPC", "UMP"} /\ ret.wrote) =>
        LET m == MergedRows
        IN  \A i \in 1..Len(m) :
              (~ \E j \in (i + 1)..Len(m) : SameKey(m[i], m[j])) =>
                 /\ \E p \in 1..Len(cache.rows) : cache.rows[p] = m[i]
                 /\ \A p \in 1..Len(cache.rows) :
                       SameKey(cache.rows[p], m[i]) => cache.rows[p] = m[i]
                 /\ \A p \in 1..Len(ret.panel) :
                       SameKey(ret.panel[p], m[i]) => ret.panel[p] = m[i]

\* the panel held a Bar for a key and a snapshot merged afterwards held a
\* Bar with another close for it; the panel now has the snapshot's close
C2_Witness ==
    /\ ret.op \in {"UPC", "UMP"} /\ ret.wrote
    /\ \E i \in 1..Len(prev.cache.rows) : \E j \in 1..Len(MergedRows) :
          /\ SameKey(prev.cache.rows[i], MergedRows[j])
          /\ prev.cache.rows[i].close # MergedRows[j].close
          /\ \E p \in 1..Len(cache.rows) : cache.rows[p] = MergedRows[j]

Unique(rows) ==
    \A i, j \in 1..Len(rows) :
        (Zfill(rows[i].ticker) = Zfill(rows[j].ticker) /\ rows[i].date = rows[j].date)
            => i = j

\* C3: uniqueness.  In every reachable state the persisted panel and the
\* panel handed back hold at most one Bar per (zero-padded symbol, date).
C3_Uniqueness == Unique(cache.rows) /\ Unique(ret.panel)

\* an update merged a snapshot whose ticker cell lacked its leading zeros
\* for a key the panel already held under the padded ticker
C3_Witness ==
    /\ ret.op = "UMP" /\ ret.wrote
    /\ \E i \in 1..Len(prev.cache.rows) :
       \E d \in Days : \E j \in 1..Len(yf[d].rows) :
          /\ ~ TagLeq(YmdText[d], ParquetMaxYyyymmdd(prev.cache))
          /\ yf[d].schema /\ CanParse(yf[d].rows[j].date)
          /\ yf[d].rows[j].ticker # prev.cache.rows[i].ticker
          /\ Zfill(yf[d].rows[j].ticker) = prev.cache.rows[i].ticker
          /\ ParseAny(yf[d].rows[j].date) = prev.cache.rows[i].date
          /\ yf[d].rows[j].close # prev.cache.rows[i].close

\* C4 (as claimed): neither the panel handed back nor the persisted panel
\* holds a Bar with close <= 0.
C4_NoNonPositiveClose ==
    /\ \A i \in 1..Len(ret.panel) : ret.panel[i].close > 0
    /\ \A i \in 1..Len(cache.rows) : cache.rows[i].close > 0

\* the greatest date of a panel, 0 for a panel without dates
MaxDate(rows) ==
    LET S == {rows[i].date : i \in 1..Len(rows)} \cup {NaT}
    IN  CHOOSE d \in S : \A e \in S : e <= d

HasDate(rows, d) == \E i \in 1..Len(rows) : rows[i].date = d

\* C5 (as claimed): with a persisted panel and no snapshot of the
\* directory the update reads dated after the panel's max date, the
\* update does not rewrite the panel and hands back the existing panel's
\* Bars (its rows of positive close).
C5_NoOpWhenNothingAfterMax ==
    /\ ( /\ ret.op = "UPC" /\ prev.cache.exists
         /\ \A d \in Days : krx[d].exists => d <= MaxDate(prev.cache.rows) )
       => /\ cache = prev.cache /\ ~ ret.wrote
          /\ ret.kind = "return" /\ ret.ok
          /\ ret.panel = ClosePositive(prev.cache.rows)
    /\ ( /\ ret.op = "UMP" /\ prev.cache.exists
         /\ \A d \in Days : yf[d].exists => d <= MaxDate(prev.cache.rows) )
       => cache = prev.cache /\ ~ ret.wrote /\ ret.kind = "path"

\* C5 (amended): with a persisted panel and no snapshot that the update
\* takes as new, the update does not rewrite the panel and hands back the
\* existing panel's Bars.  update_merged_parquet_from_daily takes a
\* snapshot as new when it is dated after the panel's max date;
\* update_parquet_cache_for_market takes it as new when its date is not
\* among the panel's dates, be it older than the max date.
C5_NoNewDataNoOp ==
    /\ ( /\ ret.op = "UPC" /\ prev.cache.exists
         /\ \A d \in Days : krx[d].exists => HasDate(prev.cache.rows, d) )
       => /\ cache = prev.cache /\ ~ ret.wrote
          /\ ret.kind = "return" /\ ret.ok
          /\ ret.panel = ClosePositive(prev.cache.rows)
    /\ ( /\ ret.op = "UMP" /\ prev.cache.exists
         /\ \A d \in Days : yf[d].exists => d <= MaxDate(prev.cache.rows) )
       => cache = prev.cache /\ ~ ret.wrote /\ ret.kind = "path"

\* update_parquet_cache_for_market ran over a directory that holds a
\* snapshot, all snapshots being of dates the panel has, and handed back
\* a panel with Bars
C5_Witness ==
    /\ ret.op = "UPC" /\ prev.cache.exists
    /\ \E d \in Days : krx[d].exists
    /\ \A d \in Days : krx[d].exists => HasDate(prev.cache.rows, d)
    /\ ret.panel # <<>>

\* the Bars of a snapshot file that have a date and a positive close
ValidKeysKrx(f) ==
    IF ~ f.exists \/ ~ f.schema THEN {}
    ELSE {<<Zfill(f.rows[i].ticker), ParseYmd(f.rows[i].date)>> :
            i \in {j \in 1..Len(f.rows) :
                     ParseYmd(f.rows[j].date) # NaT /\ f.rows[j].close > 0}}

ValidKeysYf(f) ==
    IF ~ f.exists \/ ~ f.schema THEN {}
    ELSE {<<Zfill(f.rows[i].ticker), ParseAny(f.rows[i].date)>> :
            i \in {j \in 1..Len(f.rows) :
                     CanParse(f.rows[j].date) /\ f.rows[j].close > 0}}

\* C6 (as claimed): after an update that runs over the snapshots that
\* arrived, every Bar with a date and a positive close of every
\* well-formed snapshot of the directories the update reads has its key
\* in the persisted panel.
C6_ReflectsAllSnapshots ==
    \A d \in Days :
        /\ (ret.op \in {"UPC", "LoadAll"} /\ ret.kind = "return")
              => ValidKeysKrx(krx[d]) \subseteq Keys(cache.rows)
        /\ (ret.op \in {"UMP", "LoadAll"} /\ ret.kind \in {"return", "path"})
              => ValidKeysYf(yf[d]) \subseteq Keys(cache.rows)

\* C7 (as claimed): with neither a persisted panel nor a snapshot, the
\* load fails with DataUnavailable and hands no panel back.
C7_RaisesDataUnavailable ==
    ( /\ ret.op = "UPC" /\ ~ prev.cache.exists
      /\ \A d \in Days : ~ krx[d].exists )
    => ret.kind = "raise" /\ ret.exc = "DataUnavailable"

\* C7 (amended): with neither a persisted panel nor a snapshot, the load
\* returns normally: an empty panel and a result record with ok = False
\* and the message "no daily files ... and no cache parquet".  It gives
\* that message in no other case, and it persists nothing.
C7_NoDataResult ==
    /\ ( /\ ret.op \in {"UPC", "LoadAll"} /\ ~ prev.cache.exists
         /\ \A d \in Days : ~ krx[d].exists
         /\ ret.op = "LoadAll" => \A d \in Days : ~ yf[d].exists )
       => /\ ret.kind = "return" /\ ret.panel = <<>>
          /\ ~ ret.ok /\ ret.message = MsgNoData
          /\ ~ cache.exists /\ ~ ret.wrote
    /\ ( ret.op \in {"UPC", "LoadAll"} /\ ret.message = MsgNoData )
       => /\ ~ cache.exists /\ ~ prev.cache.exists
          /\ \A d \in Days : ~ krx[d].exists

\* update_parquet_cache_for_market ran with no snapshot and no panel,
\* while the other directory did hold a snapshot
C7_Witness ==
    /\ ret.op = "UPC" /\ ~ prev.cache.exists
    /\ \A d \in Days : ~ krx[d].exists
    /\ arrivals > 0

\* C8 (as claimed): an update over new snapshots of which one lacks a
\* required column and another is well-formed does not fail as a whole,
\* and the panel holds the Bars of the well-formed new snapshots.
C8_MalformedSnapshotExcluded ==
    LET nf == NewFiles(krx, prev.cache)
    IN  ( /\ ret.op = "UPC"
          /\ \E i \in 1..Len(nf) : ~ krx[nf[i]].schema
          /\ \E i \in 1..Len(nf) : ValidKeysKrx(krx[nf[i]]) # {} )
        => /\ ret.kind = "return"
           /\ \A i \in 1..Len(nf) : ValidKeysKrx(krx[nf[i]]) \subseteq Keys(ret.panel)

(***************************************************************************)
(* Universe Selector (core/universe.py).                                   *)
(*                                                                         *)
(* A panel handed to apply_top_n is a sequence of rows                     *)
(* [ticker, date, market_cap, value, volume] together with the set of      *)
(* ranking columns the frame has; the field of a column the frame lacks    *)
(* is 0 and is never read.  top_n is a record: None, or an integer.        *)
(***************************************************************************)
RankColumns == {"market_cap", "value", "volume"}
RankValues == {1, 2}

\* ticker cells of the panels handed to the selector
UniTickers == {"000660", "005930", "35420"}

\* rank_by arguments: the one app.py passes, another column, and a name
\* no frame has
RankBys == {"market_cap", "volume", "turnover"}

TopNone == [none |-> TRUE, n |-> 0]

TopInt(n) == [none |-> FALSE, n |-> n]

TopNs == {TopNone} \cup {TopInt(n) : n \in (0 - 1)..MaxTopN}

Min(a, b) == IF a <= b THEN a ELSE b

Col(r, c) ==
    CASE c = "market_cap" -> r.market_cap
      [] c = "value" -> r.value
      [] c = "volume" -> r.volume

\* get_latest_date over the stringified dates: the greatest date
GetLatestDate(rows) == MaxDate(rows)

\* (variant: the fallback order reversed)
PickRankColumnReversed(cols, preferred) ==
    LET candidates == <<preferred, "volume", "value", "market_cap">>
        hits == {i \in 1..Len(candidates) : candidates[i] \in cols}
    IN  IF hits = {} THEN None
        ELSE candidates[CHOOSE i \in hits : \A j \in hits : i <= j]

\* _pick_rank_column: "" when no candidate is a column of the frame (the
\* function raises ValueError then)
PickRankColumn(cols, preferred) ==
    LET candidates == <<preferred, "market_cap", "value", "volume">>
        hits == {i \in 1..Len(candidates) : candidates[i] \in cols}
    IN  IF hits = {} THEN None
        ELSE candidates[CHOOSE i \in hits : \A j \in hits : i <= j]

\* (variant: the ranking snapshot is the whole frame)
SnapWholeFrame(rows, ld) == rows

\* out[out["date"] == ld]
Snap(rows, ld) == SelectSeq(rows, LAMBDA r : r.date = ld)

RECURSIVE InsertDesc(_, _, _)
InsertDesc(r, sorted, c) ==
    IF sorted = <<>> THEN <<r>>
    ELSE IF Col(Head(sorted), c) >= Col(r, c)
         THEN <<Head(sorted)>> \o InsertDesc(r, Tail(sorted), c)
         ELSE <<r>> \o sorted

\* snap.sort_values(rank_col, ascending=False, na_position="last")
RECURSIVE SortDesc(_, _)
SortDesc(rows, c) ==
    IF rows = <<>> THEN <<>>
    ELSE InsertDesc(rows[Len(rows)], SortDesc(SubSeq(rows, 1, Len(rows) - 1), c), c)

\* .drop_duplicates(subset=["ticker"], keep="first")
DropDuplicateTickers(rows) ==
    LET Keep(i) == ~ \E j \in 1..(i - 1) : rows[j].ticker = rows[i].ticker
    IN  KeepIdx(rows, Keep, 1)

\* snap.head(n)["ticker"].tolist()
HeadTickers(rows, n) == [i \in 1..Min(n, Len(rows)) |-> rows[i].ticker]

Range(q) == {q[i] : i \in 1..Len(q)}

Info(top_n, rank_by, latest_date, tickers, rows) ==
    [top_n |-> top_n, rank_by |-> rank_by, latest_date |-> latest_date,
     tickers |-> tickers, rows |-> rows]

UniReturn(out, info) == [kind |-> "return", exc |-> "", out |-> out, info |-> info]

UniRaise(exc) ==
    [kind |-> "raise", exc |-> exc, out |-> <<>>,
     info |-> Info(TopNone, "", NaT, 0, 0)]

\* apply_top_n(df, top_n, rank_by), latest_date left to its default
ApplyTopN(df, cols, top_n, rank_by) ==
    LET out == MapRows(df, ZfillRow)
        ld == GetLatestDate(out)
        rank_col == PickRankColumn(cols, rank_by)
        snap == DropDuplicateTickers(SortDesc(Snap(out, ld), rank_col))
        top_tickers == HeadTickers(snap, top_n.n)
        filtered == SelectSeq(out, LAMBDA r : r.ticker \in Range(top_tickers))
    IN  IF df = <<>>
        THEN UniReturn(df, Info(top_n, rank_by, NaT, 0, 0))
        ELSE IF top_n.none \/ top_n.n <= 0
        THEN IF rank_col = None THEN UniRaise("ValueError")
             ELSE UniReturn(out, Info(TopNone, rank_col, ld,
                                      Cardinality({out[i].ticker : i \in 1..Len(out)}),
                                      Len(out)))
        ELSE IF rank_col = None THEN UniRaise("ValueError")
        ELSE UniReturn(filtered, Info(top_n, rank_col, ld,
                                      Len(top_tickers), Len(filtered)))

(***************************************************************************)
(* Panels handed to the selector: at most MaxUniRows rows, one per key,    *)
(* sorted by (ticker, date) as the Panel Store leaves them.                *)
(***************************************************************************)
\* dates of the rows of those panels: an earlier day and the latest one
UniDays == {1, 2}

UniKeys == UniTickers \X UniDays

KeyLess(a, b) ==
    \/ TickerRank(Zfill(a[1])) < TickerRank(Zfill(b[1]))
    \/ a[1] = b[1] /\ a[2] < b[2]

RECURSIVE SortedKeys(_)
SortedKeys(K) ==
    IF K = {} THEN <<>>
    ELSE LET m == CHOOSE a \in K : \A b \in K \ {a} : KeyLess(a, b)
         IN  <<m>> \o SortedKeys(K \ {m})

ColValues(cols, c) == IF c \in cols THEN RankValues ELSE {0}

UniFrames(cols) ==
    UNION { LET ks == SortedKeys(K)
            IN  { [i \in 1..Len(ks) |->
                      [ticker |-> ks[i][1], date |-> ks[i][2],
                       market_cap |-> v[i].market_cap, value |-> v[i].value,
                       volume |-> v[i].volume]] :
                  v \in [1..Len(ks) ->
                           [market_cap : ColValues(cols, "market_cap"),
                            value : ColValues(cols, "value"),
                            volume : ColValues(cols, "volume")]] }
          : K \in {X \in SUBSET UniKeys : Cardinality(X) <= MaxUniRows} }

\* build_universe(dfs, market, top_n, rank_by): one call of apply_top_n
Select ==
    /\ ~ uni.called
    /\ \E cols \in SUBSET RankColumns : \E df \in UniFrames(cols) :
       \E top_n \in TopNs : \E rank_by \in RankBys :
          uni' = [called |-> TRUE, df |-> df, cols |-> cols, top_n |-> top_n,
                  rank_by |-> rank_by, res |-> ApplyTopN(df, cols, top_n, rank_by)]
    /\ UNCHANGED <<storeVars, scan, sigs, app, daily, io>>

NextUni == Select

SpecUni == Init /\ [][NextUni]_vars

(***************************************************************************)
(* Properties of the Universe Selector.                                    *)
(***************************************************************************)
Symbols(rows) == {Zfill(rows[i].ticker) : i \in 1..Len(rows)}

\* the symbols that have a Bar on the latest date of the panel
SymbolsAtLatest(rows) ==
    {Zfill(rows[i].ticker) : i \in {j \in 1..Len(rows) : rows[j].date = MaxDate(rows)}}

PositiveTopN == uni.called /\ uni.df # <<>> /\ ~ uni.top_n.none /\ uni.top_n.n > 0

\* the rows of the input whose symbol is in S, tickers zero-padded
RowsOf(rows, S) == SelectSeq(MapRows(rows, ZfillRow), LAMBDA r : r.ticker \in S)

\* C9 (as claimed): for a non-empty panel and a positive N, the selection
\* that select returns has min(N, number of symbols of the panel)
\* distinct symbols, and is the panel's rows of those symbols.
C9_TopNOfPanelSymbols ==
    (PositiveTopN /\ uni.res.kind = "return") =>
        /\ Cardinality(Symbols(uni.res.out))
              = Min(uni.top_n.n, Cardinality(Symbols(uni.df)))
        /\ uni.res.out = RowsOf(uni.df, Symbols(uni.res.out))

\* C9 (amended): for a non-empty panel and a positive N, the selection
\* that select returns has min(N, number of symbols that have a Bar on
\* the panel's latest date) distinct symbols, all of them symbols of the
\* latest date; it is the panel's rows of those symbols, and UniverseInfo
\* records that count.
C9_TopNBound ==
    (PositiveTopN /\ uni.res.kind = "return") =>
        /\ Cardinality(Symbols(uni.res.out))
              = Min(uni.top_n.n, Cardinality(SymbolsAtLatest(uni.df)))
        /\ Symbols(uni.res.out) \subseteq SymbolsAtLatest(uni.df)
        /\ uni.res.out = RowsOf(uni.df, Symbols(uni.res.out))
        /\ uni.res.info.tickers = Cardinality(Symbols(uni.res.out))
        /\ uni.res.info.rows = Len(uni.res.out)

\* a selection with N below the number of symbols of the latest date, from
\* a panel that also holds a symbol without a Bar on that date
C9_Witness ==
    /\ PositiveTopN /\ uni.res.kind = "return"
    /\ uni.top_n.n < Cardinality(SymbolsAtLatest(uni.df))
    /\ Cardinality(SymbolsAtLatest(uni.df)) < Cardinality(Symbols(uni.df))
    /\ Cardinality(Symbols(uni.res.out)) = uni.top_n.n

\* C10 (as claimed): with top_n null or non-positive, select returns the
\* panel with the same Bars and a UniverseInfo whose top_n is null, for
\* every panel with rows that has the symbol and date columns, whether or
\* not it has a ranking column.
C10_NoTopNReturnsPanel ==
    (uni.called /\ uni.df # <<>> /\ (uni.top_n.none \/ uni.top_n.n <= 0)) =>
        /\ uni.res.kind = "return"
        /\ uni.res.out = MapRows(uni.df, ZfillRow)
        /\ uni.res.info.top_n = TopNone

\* the first attribute of the preference list that the frame has, "" if none
FirstPresent(cols) ==
    IF "market_cap" \in cols THEN "market_cap"
    ELSE IF "value" \in cols THEN "value"
    ELSE IF "volume" \in cols THEN "volume"
    ELSE None

\* the value of column c of symbol s on the latest date of the panel
ValueAtLatest(rows, s, c) ==
    LET i == CHOOSE j \in 1..Len(rows) :
                 Zfill(rows[j].ticker) = s /\ rows[j].date = MaxDate(rows)
    IN  Col(rows[i], c)

\* the selection holds the symbols that rank highest by column c on the
\* latest date
RankedBy(c) ==
    \A s \in Symbols(uni.res.out) :
       \A t \in SymbolsAtLatest(uni.df) \ Symbols(uni.res.out) :
          ValueAtLatest(uni.df, s, c) >= ValueAtLatest(uni.df, t, c)

RankFallback ==
    /\ (uni.res.kind = "raise") <=> (uni.cols \cap ({uni.rank_by} \cup RankColumns) = {})
    /\ uni.res.kind = "raise" => uni.res.exc = "ValueError" /\ uni.res.out = <<>>
    /\ (uni.res.kind = "return" /\ uni.rank_by \notin uni.cols) =>
          /\ uni.res.info.rank_by = FirstPresent(uni.cols)
          /\ RankedBy(FirstPresent(uni.cols))

\* C11 (as claimed): with a positive top_n and the requested rank attribute
\* absent, select ranks by the first present of market_cap, value, volume
\* and records it in UniverseInfo; it fails if and only if none of them is
\* present, and then returns no selection.
C11_RankFallback ==
    (uni.called /\ ~ uni.top_n.none /\ uni.top_n.n > 0) => RankFallback

\* C11 (amended): the same for a panel that has rows; a panel without rows
\* is handed back as it is, whatever its columns.
C11_RankFallbackNonEmpty ==
    /\ PositiveTopN => RankFallback
    /\ (uni.called /\ uni.df = <<>>) =>
          uni.res.kind = "return" /\ uni.res.out = <<>>

\* a selection that cut the symbols of the latest date, ranked by value
\* because neither the requested attribute nor market_cap is a column
C11_Witness ==
    /\ PositiveTopN /\ uni.res.kind = "return"
    /\ uni.rank_by = "turnover" /\ uni.cols = {"value", "volume"}
    /\ uni.res.info.rank_by = "value"
    /\ Symbols(uni.res.out) # SymbolsAtLatest(uni.df)
    /\ \E s \in Symbols(uni.res.out) :
       \E t \in SymbolsAtLatest(uni.df) \ Symbols(uni.res.out) :
          /\ ValueAtLatest(uni.df, s, "value") > ValueAtLatest(uni.df, t, "value")
          /\ ValueAtLatest(uni.df, s, "volume") < ValueAtLatest(uni.df, t, "volume")

(***************************************************************************)
(* Strategies (core/strategies).                                           *)
(*                                                                         *)
(* A panel handed to a strategy is a sequence of symbols sorted by ticker; *)
(* each symbol carries the number n of its Bars and the indicators that    *)
(* the rolling windows give on its last row.  Prices and volumes are       *)
(* integers; ratios (ret20, std20, slopes, sub-scores) are fixed-point     *)
(* numbers in units of 1/Scale, so a sub-score of 1.0 is Scale and a       *)
(* final score of 100 is 100 * Scale.  Levels are kept in thousandths of   *)
(* a price unit, the unit of stop_buffer.                                  *)
(***************************************************************************)
Scale == 10000
Milli == 1000

\* the attributes of a ScanParams object (base.py), and of the object
\* that sidebar.py builds and pullback_rr.py reads
BaseAttrs ==
    {"tolerance", "stop_lookback", "stop_buffer", "target_lookback", "min_rr",
     "ma5_up_days"}
Ma5Attrs == {"require_ma5_positive", "ma5_min_slope"}

\* min_rr in tenths
MinRRs == {15, 16, 30}

\* ScanParams(min_rr = m / 10), the other fields at their defaults:
\* tolerance 0.03 and stop_buffer 0.005 in thousandths
ScanParams(m) ==
    [tolerance |-> 30, stop_lookback |-> 10, stop_buffer |-> 5,
     target_lookback |-> 20, min_rr |-> m, ma5_up_days |-> 0,
     attrs |-> BaseAttrs, require_ma5_positive |-> FALSE, ma5_min_slope |-> 0]

\* an object that also has the two attributes pullback_rr.py reads
Ma5Params(m, req) ==
    [ScanParams(m) EXCEPT !.attrs = BaseAttrs \cup Ma5Attrs,
                          !.require_ma5_positive = req]

ParamsSet ==
    {ScanParams(m) : m \in MinRRs}
        \cup {Ma5Params(m, req) : m \in MinRRs, req \in BOOLEAN}
        \cup {[Ma5Params(15, FALSE) EXCEPT !.ma5_up_days = 3]}

\* the records Strategy B is called with: the dataclass accepts any value,
\* so also a tolerance of 1.5
ParamsSetB ==
    {ScanParams(m) : m \in MinRRs} \cup {[ScanParams(15) EXCEPT !.tolerance = 1500]}

ScanReturn(out) == [kind |-> "return", exc |-> "", out |-> out]

ScanRaise(exc) == [kind |-> "raise", exc |-> exc, out |-> <<>>]

Abs(x) == IF x < 0 THEN 0 - x ELSE x

\* (variant: no clipping)
ClampNone(x) == x

\* _clamp01 / Series.clip(lower=0.0, upper=1.0)
Clamp01(x) == IF x < 0 THEN 0 ELSE IF x > Scale THEN Scale ELSE x

\* a / b - 1 in fixed point, with fillna(0.0) and non-finite -> 0.0
SlopeOf(a, b) == IF b = 0 THEN 0 ELSE ((a - b) * Scale) \div b

(***************************************************************************)
(* Strategy A: PullbackRRStrategy.scan (pullback_rr.py).                   *)
(***************************************************************************)
MinHistoryA == 120

\* (variant: a shorter minimum history)
EnoughHistoryShort(x) == x.n >= 100

\* counts >= 120
EnoughHistoryA(x) == x.n >= MinHistoryA

Uptrend(x) == x.ma20 > x.ma60

\* high20 >= high60 * 0.95
HadMomentum(x) == x.high20 * 100 >= x.high60 * 95

\* |close - ma20| / ma20 <= params.tolerance
NearMa20(x, params) ==
    x.ma20 # 0 /\ Abs(x.close - x.ma20) * Milli <= params.tolerance * x.ma20

\* vol_ma20 > 0 and vol_5 <= vol_ma20 * 1.5
VolOk(x) == x.vol_ma20 > 0 /\ x.vol_5 * 10 <= x.vol_ma20 * 15

EntryA(x) == x.close * Milli

\* recent_low * (1.0 - params.stop_buffer)
StopA(x, params) == x.recent_low * (Milli - params.stop_buffer)

TargetA(x) == x.target * Milli

RiskA(x, params) == EntryA(x) - StopA(x, params)

RewardA(x) == TargetA(x) - EntryA(x)

RrOkA(x, params) == RiskA(x, params) > 0 /\ RewardA(x) > 0

\* (variant: no min_rr filter)
MinRrOkAlways(x, params) == TRUE

\* (variant: the comparison turned round)
MinRrInverted(x, params) == RewardA(x) * 10 <= params.min_rr * RiskA(x, params)

\* rr >= params.min_rr, rr = reward / risk with risk > 0
MinRrOkA(x, params) == RewardA(x) * 10 >= params.min_rr * RiskA(x, params)

Ma5Slope3d(x) == SlopeOf(x.ma5, x.ma5_3ago)

\* 1.0 - |rr - 2.15| / 1.35, clipped
RrPref(reward, risk) ==
    LET dev == (Abs(reward * 100 - 215 * risk) * 10) \div risk
    IN  Clamp01(Scale - (dev * Scale) \div 1350)

\* 0.6 * clip(ma20_slope_5d / 0.02) + 0.4 * clip(ret20 / 0.10)
TrendScoreA(x) ==
    (6 * Clamp01(SlopeOf(x.ma20, x.ma20_5ago) * 50) + 4 * Clamp01(x.ret20 * 10)) \div 10

\* clip(1.0 - bb_width / 0.20), bb_width = 4 * std20
VolScore(x) == Clamp01(Scale - 4 * x.std20 * 5)

\* clip(1.0 - |vol_5 / vol_ma20 - 0.75| / 0.75)
VolScore2(x) ==
    Clamp01(Scale - (Abs(x.vol_5 * 100 - 75 * x.vol_ma20) * Scale) \div (75 * x.vol_ma20))

\* clip(ma5_slope_3d / 0.01)
Ma5SlopeScore(x) == Clamp01(Ma5Slope3d(x) * 100)

\* out["ret20"].rank(pct=True): average rank over the number of rows
RsScore(last, i) ==
    LET less == Cardinality({j \in 1..Len(last) : last[j].ret20 < last[i].ret20})
        same == Cardinality({j \in 1..Len(last) : last[j].ret20 = last[i].ret20})
    IN  ((2 * less + same + 1) * Scale) \div (2 * Len(last))

\* the output row of the i-th surviving symbol
CandidateA(last, i, params) ==
    LET x == last[i]
        rr_pref == RrPref(RewardA(x), RiskA(x, params))
        rs_score == RsScore(last, i)
    IN  [ticker |-> x.ticker,
         entry |-> EntryA(x), stop |-> StopA(x, params), target |-> TargetA(x),
         risk |-> RiskA(x, params), reward |-> RewardA(x),
         rr_pref |-> rr_pref, trend_score |-> TrendScoreA(x),
         vol_score |-> VolScore(x), vol_score2 |-> VolScore2(x),
         rs_score |-> rs_score, ma5_slope_score |-> Ma5SlopeScore(x),
         score |-> 35 * rr_pref + 20 * TrendScoreA(x) + 15 * VolScore(x)
                     + 10 * VolScore2(x) + 10 * rs_score + 10 * Ma5SlopeScore(x)]

RECURSIVE InsertByScore(_, _)
InsertByScore(c, sorted) ==
    IF sorted = <<>> THEN <<c>>
    ELSE IF Head(sorted).score >= c.score
         THEN <<Head(sorted)>> \o InsertByScore(c, Tail(sorted))
         ELSE <<c>> \o sorted

\* out.sort_values("score", ascending=False)
RECURSIVE SortByScore(_)
SortByScore(q) ==
    IF q = <<>> THEN <<>>
    ELSE InsertByScore(q[Len(q)], SortByScore(SubSeq(q, 1, Len(q) - 1)))

\* PullbackRRStrategy.scan(df, params)
PullbackScan(df, params) ==
    LET g == SelectSeq(df, EnoughHistoryA)
        l1 == SelectSeq(g, LAMBDA x : ~ x.na)
        l2 == SelectSeq(l1, Uptrend)
        l3 == SelectSeq(l2, HadMomentum)
        l4 == SelectSeq(l3, LAMBDA x : NearMa20(x, params))
        l5 == SelectSeq(l4, VolOk)
        l6 == SelectSeq(l5, LAMBDA x : RrOkA(x, params))
        l7 == SelectSeq(l6, LAMBDA x : MinRrOkA(x, params))
        l8 == IF params.require_ma5_positive
              THEN SelectSeq(l7, LAMBDA x : Ma5Slope3d(x) > params.ma5_min_slope)
              ELSE l7
    IN  IF df = <<>> THEN ScanReturn(<<>>)
        ELSE IF l7 = <<>> THEN ScanReturn(<<>>)
        ELSE IF "require_ma5_positive" \notin params.attrs
             THEN ScanRaise("AttributeError")
        ELSE IF params.require_ma5_positive /\ "ma5_min_slope" \notin params.attrs
             THEN ScanRaise("AttributeError")
        ELSE ScanReturn(SortByScore([i \in 1..Len(l8) |-> CandidateA(l8, i, params)]))

(***************************************************************************)
(* Panels handed to Strategy A: the symbol 005930 with any combination of  *)
(* the indicator values below, alone or after a second symbol 000660.      *)
(***************************************************************************)
\* ma5, ma5_3ago, ma20_5ago, ret20, std20 of a rising, a falling and a
\* flat-from-zero history
ScoreInputs ==
    {[ma5 |-> 102, ma5_3ago |-> 100, ma20_5ago |-> 97, ret20 |-> 1200, std20 |-> 100],
     [ma5 |-> 99, ma5_3ago |-> 100, ma20_5ago |-> 101, ret20 |-> 0 - 500, std20 |-> 800],
     [ma5 |-> 100, ma5_3ago |-> 0, ma20_5ago |-> 0, ret20 |-> 0, std20 |-> 0]}

\* (vol_ma20, vol_5): cooled, surging, no volume at all
VolInputs == {<<10, 10>>, <<10, 16>>, <<0, 0>>}

SymbolA(t, n, na, ma60, high20, close, vol, low, target, sc) ==
    [ticker |-> t, n |-> n, na |-> na, ma20 |-> 100, ma60 |-> ma60,
     high20 |-> high20, high60 |-> 110, close |-> close,
     vol_ma20 |-> vol[1], vol_5 |-> vol[2], recent_low |-> low, target |-> target,
     ma5 |-> sc.ma5, ma5_3ago |-> sc.ma5_3ago, ma20_5ago |-> sc.ma20_5ago,
     ret20 |-> sc.ret20, std20 |-> sc.std20]

SymbolsA(t) ==
    {SymbolA(t, n, na, ma60, high20, close, vol, low, target, sc) :
        n \in {MinHistoryA - 1, MinHistoryA}, na \in BOOLEAN, ma60 \in {95, 105},
        high20 \in {104, 110}, close \in {100, 104}, vol \in VolInputs,
        low \in {90, 96, 101}, target \in {100, 107, 120}, sc \in ScoreInputs}

\* the second symbol: one that passes every filter, with the history cut
\* one Bar short or not, and with a 20-day return equal to or below the
\* first symbol's best
PeersA ==
    {SymbolA("000660", n, FALSE, 95, 110, 100, <<10, 10>>, 96, 120, sc) :
        n \in {MinHistoryA - 1, MinHistoryA}, sc \in ScoreInputs}

PanelsA ==
    {<<>>} \cup {<<x>> : x \in SymbolsA("005930")}
           \cup {<<y, x>> : y \in PeersA, x \in SymbolsA("005930")}

\* one scan of Strategy A
ScanA ==
    /\ ~ scan.called
    /\ \E df \in PanelsA : \E params \in ParamsSet :
          scan' = [called |-> TRUE, strategy |-> "pullback_rr", df |-> df,
                   params |-> params, res |-> PullbackScan(df, params)]
    /\ UNCHANGED <<storeVars, uni, sigs, app, daily, io>>

(***************************************************************************)
(* Strategy B: VolCompressionBreakoutStrategy.scan                         *)
(* (vol_compression_breakout.py).  Market caps are in units of 10^11 won,  *)
(* the 20-day mean trading value in units of 10^9 won.                     *)
(***************************************************************************)
MinHistoryB == 140
MinMarketCap == 3
MinValueMa20 == 3
MinBbWindow == 84
MinBbOk5 == 4

\* a NaN cell of range20
NaN == 0 - 1

\* _safe_div(a, b, default) in fixed point
SafeDiv(a, b, default) == IF b = 0 THEN default ELSE (a * Scale) \div b

\* the filters up to the compression conditions: history, market cap,
\* trading value, NaN indicators, 60-day volatility, day range, gap-up,
\* percentile window, compression persistence
PreFiltersB(x) ==
    /\ x.n >= MinHistoryB
    /\ x.mcap >= MinMarketCap
    /\ x.value_ma20 >= MinValueMa20
    /\ ~ x.na
    /\ x.std60 <= 350
    /\ SafeDiv(x.high - x.low, x.close, 0) <= 1200
    /\ SafeDiv(x.open - x.prev_close, x.prev_close, 0) <= 600
    /\ x.bb_len >= MinBbWindow
    /\ x.bb_ok_5 >= MinBbOk5

\* |ma20 - ma60| / close, 1.0 for a zero close; compared with tolerance
MaConverged(x, params) ==
    x.close # 0 /\ Abs(x.ma20 - x.ma60) * Milli <= params.tolerance * x.close

Range20(x) == IF x.range20 = NaN THEN Scale ELSE x.range20

VolRatio5v20(x) == SafeDiv(x.vol_5, x.vol_ma20, 999 * Scale)

\* bb_is_compressed and ma_converged and in_box and vol_dry
CompressionOk(x, params) ==
    /\ x.bb_q > 0 /\ x.bb_width <= x.bb_q
    /\ MaConverged(x, params)
    /\ Range20(x) <= 1000
    /\ VolRatio5v20(x) <= 8500

\* high > prev20_high and close > prev20_high
BreakoutConfirmed(x) == x.high > x.prev20_high /\ x.close > x.prev20_high

\* close / prev20_high - 1 >= 0.01
CloseMarginOk(x) ==
    (IF x.prev20_high > 0 THEN SlopeOf(x.close, x.prev20_high) ELSE 0) >= 100

VolSurgeRatio(x) == SafeDiv(x.volume, x.vol_ma20_prev, 0)

\* (variant: a confirmed breakout is not filtered further)
BreakoutQualityAny(x) == TRUE

\* the filters applied to a confirmed breakout only
BreakoutQualityOk(x) ==
    /\ CloseMarginOk(x)
    /\ VolSurgeRatio(x) >= 18000
    /\ SafeDiv(x.volume, x.vol_5, 0) >= 13000

StageB(x) ==
    IF BreakoutConfirmed(x) /\ VolSurgeRatio(x) >= 18000 THEN "BREAKOUT" ELSE "WATCH"

EntryB(x) == x.close * Milli

StopB(x, params) == x.recent_low * (Milli - params.stop_buffer)

RiskB(x, params) == EntryB(x) - StopB(x, params)

\* max(recent high, entry + 2R)
TargetB(x, params) ==
    LET target_a == x.target_a * Milli
        target_b == EntryB(x) + 2 * RiskB(x, params)
    IN  IF target_a >= target_b THEN target_a ELSE target_b

RewardB(x, params) == TargetB(x, params) - EntryB(x)

\* min_rr applies to BREAKOUT only
MinRrOkB(x, params) ==
    StageB(x) = "BREAKOUT" => RewardB(x, params) * 10 >= params.min_rr * RiskB(x, params)

\* the symbol reaches results.append
EmitsB(x, params) ==
    /\ PreFiltersB(x)
    /\ CompressionOk(x, params)
    /\ BreakoutConfirmed(x) => BreakoutQualityOk(x)
    /\ RiskB(x, params) > 0
    /\ RewardB(x, params) > 0
    /\ MinRrOkB(x, params)

\* 1 at bb_width <= bb_q, decaying above; 0 when bb_q is not positive
BbScore(x) ==
    IF x.bb_q > 0 THEN Clamp01(2 * Scale - (x.bb_width * Scale) \div x.bb_q) ELSE 0

\* 1.0 - ma_gap / max(tolerance, 1e-9)
MaScore(x, params) ==
    IF x.close = 0 \/ params.tolerance = 0 THEN 0
    ELSE Clamp01(Scale - (Abs(x.ma20 - x.ma60) * Milli * Scale)
                            \div (x.close * params.tolerance))

\* 0.35 bb_score + 0.25 range_score + 0.20 ma_score + 0.20 vol_dry_score
CompressionScore(x, params) ==
    (35 * BbScore(x) + 25 * Clamp01(Scale - Range20(x) * 10)
       + 20 * MaScore(x, params)
       + 20 * Clamp01(Scale - (VolRatio5v20(x) * 100) \div 85)) \div 100

\* 0.6 * trend_up + 0.4 * clamp(ret20 / 0.10)
TrendScoreB(x) ==
    (6 * (IF x.ma20 > x.ma60 THEN Scale ELSE 0) + 4 * Clamp01(x.ret20 * 10)) \div 10

VolSurgeScore(x) ==
    IF VolSurgeRatio(x) >= 18000 THEN Clamp01(VolSurgeRatio(x) - 18000) ELSE 0

Total01B(x, params) ==
    IF StageB(x) = "WATCH"
    THEN (70 * CompressionScore(x, params) + 30 * TrendScoreB(x)) \div 100
    ELSE (45 * CompressionScore(x, params) + 15 * TrendScoreB(x) + 20 * Scale
            + 20 * Clamp01(Scale \div 2 + VolSurgeScore(x) \div 2)) \div 100

\* the dictionary appended to results
CandidateB(x, params) ==
    [ticker |-> x.ticker, stage |-> StageB(x),
     entry |-> EntryB(x), stop |-> StopB(x, params), target |-> TargetB(x, params),
     risk |-> RiskB(x, params), reward |-> RewardB(x, params),
     compression_score |-> CompressionScore(x, params),
     trend_score |-> TrendScoreB(x),
     score |-> 100 * Clamp01(Total01B(x, params))]

\* BREAKOUT before WATCH, then by score
RECURSIVE InsertByStage(_, _)
InsertByStage(c, sorted) ==
    IF sorted = <<>> THEN <<c>>
    ELSE IF \/ (Head(sorted).stage = "BREAKOUT" /\ c.stage = "WATCH")
            \/ (Head(sorted).stage = c.stage /\ Head(sorted).score >= c.score)
         THEN <<Head(sorted)>> \o InsertByStage(c, Tail(sorted))
         ELSE <<c>> \o sorted

RECURSIVE SortByStage(_)
SortByStage(q) ==
    IF q = <<>> THEN <<>>
    ELSE InsertByStage(q[Len(q)], SortByStage(SubSeq(q, 1, Len(q) - 1)))

\* scan_date = pd.to_datetime(df["date"].max()).strftime("%Y%m%d"): a
\* frame without the column raises KeyError, NaT.strftime raises ValueError
ScanDate(df, has_date) ==
    IF ~ has_date THEN "KeyError" ELSE IF df = <<>> THEN "ValueError" ELSE "ok"

\* VolCompressionBreakoutStrategy.scan(df, params); cap is FALSE when the
\* market-cap lookup fails and cap_map is left empty
VolScan(df, has_date, cap, params) ==
    LET withCap == [i \in 1..Len(df) |->
                       IF cap THEN df[i] ELSE [df[i] EXCEPT !.mcap = 0]]
        hits == SelectSeq(withCap, LAMBDA x : EmitsB(x, params))
    IN  IF ScanDate(df, has_date) # "ok" THEN ScanRaise(ScanDate(df, has_date))
        ELSE ScanReturn(SortByStage([i \in 1..Len(hits) |-> CandidateB(hits[i], params)]))

(***************************************************************************)
(* Panels handed to Strategy B: one symbol whose values up to the          *)
(* compression conditions pass every filter or miss exactly one, with any  *)
(* combination of the values read from there on.                           *)
(***************************************************************************)
PreGood ==
    [n |-> MinHistoryB, mcap |-> MinMarketCap, value_ma20 |-> MinValueMa20,
     na |-> FALSE, std60 |-> 350, low |-> 99, open |-> 100, prev_close |-> 100,
     bb_len |-> MinBbWindow, bb_ok_5 |-> MinBbOk5]

PreInputs ==
    {PreGood,
     [PreGood EXCEPT !.n = MinHistoryB - 1],
     [PreGood EXCEPT !.n = MinHistoryA - 1],
     [PreGood EXCEPT !.mcap = MinMarketCap - 1],
     [PreGood EXCEPT !.value_ma20 = MinValueMa20 - 1],
     [PreGood EXCEPT !.na = TRUE],
     [PreGood EXCEPT !.std60 = 351],
     [PreGood EXCEPT !.low = 88],
     [PreGood EXCEPT !.open = 107],
     [PreGood EXCEPT !.bb_len = MinBbWindow - 1],
     [PreGood EXCEPT !.bb_ok_5 = MinBbOk5 - 1]}

SymbolB(t, pre, bb_q, bb_width, ma60, close, range20, vol, prev20_high, volume,
        low, target_a, ret20) ==
    [ticker |-> t, n |-> pre.n, mcap |-> pre.mcap, value_ma20 |-> pre.value_ma20,
     na |-> pre.na, std60 |-> pre.std60, high |-> 103, low |-> pre.low,
     open |-> pre.open, close |-> close, prev_close |-> pre.prev_close,
     bb_len |-> pre.bb_len, bb_ok_5 |-> pre.bb_ok_5, bb_q |-> bb_q,
     bb_width |-> bb_width, ma20 |-> 100, ma60 |-> ma60, range20 |-> range20,
     vol_5 |-> vol[1], vol_ma20 |-> vol[2], prev20_high |-> prev20_high,
     volume |-> volume, vol_ma20_prev |-> 10, recent_low |-> low,
     target_a |-> target_a, ret20 |-> ret20]

SymbolsB(t) ==
    {SymbolB(t, pre, bb_q, bb_width, ma60, close, range20, vol, prev20_high,
             volume, low, target_a, ret20) :
        pre \in PreInputs, bb_q \in {0, 400}, bb_width \in {300, 500},
        ma60 \in {99, 101, 110}, close \in {101, 103}, range20 \in {500, NaN},
        vol \in {<<8, 10>>, <<16, 20>>, <<0, 0>>}, prev20_high \in {100, 102},
        volume \in {10, 18, 30}, low \in {90, 99, 104}, target_a \in {100, 140},
        ret20 \in {0 - 500, 1200}}

PanelsB == {<<>>} \cup {<<x>> : x \in SymbolsB("005930")}

\* one scan of Strategy B
ScanB ==
    /\ ~ scan.called
    /\ \E df \in PanelsB : \E has_date \in BOOLEAN : \E cap \in BOOLEAN :
       \E params \in ParamsSetB :
          /\ df # <<>> => has_date
          /\ scan' = [called |-> TRUE, strategy |-> "vol_compression_breakout",
                      df |-> df, has_date |-> has_date, cap |-> cap,
                      params |-> params,
                      res |-> VolScan(df, has_date, cap, params)]
    /\ UNCHANGED <<storeVars, uni, sigs, app, daily, io>>

NextScan ==
    \/ ScanA
    \/ ScanB

SpecScan == Init /\ [][NextScan]_vars

(***************************************************************************)
(* Properties of the strategies.                                           *)
(***************************************************************************)
Out == IF scan.called THEN scan.res.out ELSE <<>>

Emitted(res) == {res.out[i].ticker : i \in 1..Len(res.out)}

IsA == scan.called /\ scan.strategy = "pullback_rr"

IsB == scan.called /\ scan.strategy = "vol_compression_breakout"

\* C12: every Candidate of either strategy has entry > stop and
\* target > entry; every Candidate of Strategy A and every BREAKOUT
\* Candidate of Strategy B has (target - entry) / (entry - stop) >= min_rr.
C12_RiskRewardInvariant ==
    \A i \in 1..Len(Out) :
       LET c == Out[i]
       IN  /\ c.entry > c.stop
           /\ c.target > c.entry
           /\ (IsA \/ c.stage = "BREAKOUT") =>
                 (c.target - c.entry) * 10 >= scan.params.min_rr * (c.entry - c.stop)

\* Strategy B emitted a BREAKOUT Candidate under min_rr = 3.0, which the
\* target of entry + 2R alone would not reach
C12_Witness ==
    /\ IsB /\ scan.params.min_rr = 30
    /\ \E i \in 1..Len(Out) :
          /\ Out[i].stage = "BREAKOUT"
          /\ Out[i].target > Out[i].entry + 2 * (Out[i].entry - Out[i].stop)

\* the result of the same scan with min_rr set to m
Rescan(m) ==
    IF IsA THEN PullbackScan(scan.df, [scan.params EXCEPT !.min_rr = m])
    ELSE VolScan(scan.df, scan.has_date, scan.cap, [scan.params EXCEPT !.min_rr = m])

\* C13: with the panel and all other parameters fixed, the symbols emitted
\* under a greater min_rr are among those emitted under the smaller one,
\* and for Strategy B a symbol emitted under both has the same stage.
C13_FilterMonotonicity ==
    scan.called =>
       \A m \in MinRRs :
          m > scan.params.min_rr =>
             /\ Emitted(Rescan(m)) \subseteq Emitted(scan.res)
             /\ IsB => \A i \in 1..Len(Rescan(m).out) : \A j \in 1..Len(Out) :
                          Rescan(m).out[i].ticker = Out[j].ticker
                             => Rescan(m).out[i].stage = Out[j].stage

\* a scan that emits a symbol under min_rr = 1.5 which min_rr = 1.6 removes
C13_Witness ==
    /\ scan.called /\ scan.params.min_rr = 15
    /\ Emitted(scan.res) # {}
    /\ Emitted(Rescan(16)) # Emitted(scan.res)

InUnit(v) == 0 <= v /\ v <= Scale

\* C14: every component sub-score of an emitted Candidate lies in [0, 1]
\* and its final score in [0, 100].
C14_ScoreBounds ==
    \A i \in 1..Len(Out) :
       LET c == Out[i]
       IN  /\ 0 <= c.score /\ c.score <= 100 * Scale
           /\ InUnit(c.trend_score)
           /\ IsA => /\ InUnit(c.rr_pref) /\ InUnit(c.vol_score)
                     /\ InUnit(c.vol_score2) /\ InUnit(c.rs_score)
                     /\ InUnit(c.ma5_slope_score)
           /\ IsB => InUnit(c.compression_score)

\* Strategy A emitted a Candidate whose MA5 slope of 2% is clipped to a
\* sub-score of 1
C14_Witness ==
    /\ IsA
    /\ \E i \in 1..Len(Out) : \E j \in 1..Len(scan.df) :
          /\ scan.df[j].ticker = Out[i].ticker
          /\ Ma5Slope3d(scan.df[j]) * 100 > Scale
          /\ Out[i].ma5_slope_score = Scale

\* C15: a symbol with fewer than 120 Bars is in the output of neither
\* strategy, whatever its last row.
C15_MinimumHistory ==
    scan.called =>
       \A j \in 1..Len(scan.df) :
          scan.df[j].n < 120 => scan.df[j].ticker \notin Emitted(scan.res)

\* Strategy A emitted one symbol and left out a second one that passes
\* every filter but has 119 Bars
C15_Witness ==
    /\ IsA /\ Len(scan.df) = 2 /\ Len(Out) = 1
    /\ scan.df[1].n = 119
    /\ Out[1].ticker = scan.df[2].ticker

\* the symbol satisfies every condition of Strategy A: uptrend, recent
\* momentum, proximity to the medium MA, volume cooling, positive risk and
\* reward, rr >= min_rr
QualifiesA(x, params) ==
    /\ x.n >= 120 /\ ~ x.na
    /\ Uptrend(x) /\ HadMomentum(x) /\ NearMa20(x, params) /\ VolOk(x)
    /\ RrOkA(x, params) /\ MinRrOkA(x, params)

\* C16 (as claimed): Strategy A, called with a ScanParams record that asks
\* for no rising days, on a panel with a symbol that satisfies every
\* condition, returns without raising exactly one Candidate for that
\* symbol, and the Candidate has no stage field.
C16_StrategyAEmitsOne ==
    (IsA /\ scan.params.attrs = BaseAttrs /\ scan.params.ma5_up_days = 0) =>
       \A j \in 1..Len(scan.df) :
          QualifiesA(scan.df[j], scan.params) =>
             /\ scan.res.kind = "return"
             /\ Cardinality({i \in 1..Len(Out) : Out[i].ticker = scan.df[j].ticker}) = 1
             /\ \A i \in 1..Len(Out) : "stage" \notin DOMAIN Out[i]

\* a panel without rows, or one from which every symbol is filtered out
NothingPasses ==
    \/ scan.df = <<>>
    \/ IsA /\ \A j \in 1..Len(scan.df) : ~ QualifiesA(scan.df[j], scan.params)
    \/ IsB /\ \A j \in 1..Len(scan.df) :
                 ~ EmitsB(IF scan.cap THEN scan.df[j]
                          ELSE [scan.df[j] EXCEPT !.mcap = 0], scan.params)

\* C17 (as claimed): either strategy answers an empty panel, and a panel
\* from which every symbol is filtered out, with an empty Candidate list
\* and does not raise.
C17_EmptyInputSafety ==
    (scan.called /\ NothingPasses) =>
       scan.res.kind = "return" /\ scan.res.out = <<>>

\* the invariants of a ScanParams record: positive windows, tolerance and
\* stop_buffer in [0, 1) (both in thousandths)
ValidParams(params) ==
    /\ params.stop_lookback > 0 /\ params.target_lookback > 0
    /\ 0 <= params.tolerance /\ params.tolerance < Milli
    /\ 0 <= params.stop_buffer /\ params.stop_buffer < Milli

\* C22: a scan called with a ScanParams record that violates its
\* invariants is rejected with InvalidParams and produces no Candidate.
C22_InvalidParamsRejected ==
    scan.called /\ ~ ValidParams(scan.params) =>
        scan.res = ScanRaise("InvalidParams")

\* the symbol as Strategy B reads it: without the market caps of pykrx
\* every market cap is 0
Seen(x) == IF scan.cap THEN x ELSE [x EXCEPT !.mcap = 0]

\* the stage of the symbol in the output, "none" if it was not emitted
StageOf(t) ==
    IF \E i \in 1..Len(Out) : Out[i].ticker = t
    THEN Out[CHOOSE i \in 1..Len(Out) : Out[i].ticker = t].stage
    ELSE "none"

SurgeConfirmed(x) == VolSurgeRatio(x) >= 18000

\* the stage the breakout and volume-surge confirmations call for
StageWanted(x) ==
    IF BreakoutConfirmed(x) /\ SurgeConfirmed(x) THEN "BREAKOUT" ELSE "WATCH"

\* risk > 0, reward > 0, and rr >= min_rr for a BREAKOUT
LevelChecks(x, params) ==
    /\ RiskB(x, params) > 0
    /\ RewardB(x, params) > 0
    /\ StageWanted(x) = "BREAKOUT" =>
          RewardB(x, params) * 10 >= params.min_rr * RiskB(x, params)

ScannedB == IsB /\ scan.res.kind = "return"

C27_RisingDaysRequirement ==
    IsA /\ scan.params.ma5_up_days >= 3 =>
       \A i \in 1..Len(scan.df) :
          scan.df[i].ticker \in Emitted(scan.res) => scan.df[i].ma5 > scan.df[i].ma5_3ago

(***************************************************************************)
(* Result cache: scan_signature (core/scan_cache.py).                      *)
(*                                                                         *)
(* The signature is the md5 digest of the JSON text of the payload, keys   *)
(* sorted.  The digest is represented by the payload it digests: equal     *)
(* payloads give equal digests, and md5 is taken to be free of collisions  *)
(* on the payloads that occur.                                             *)
(***************************************************************************)
\* str(latest_date): a str is itself, an int is its decimal digits
Str(v) == v.digits

\* str(market).upper()
Upper(m) ==
    CASE m = "kospi" -> "KOSPI"
      [] m = "kosdaq" -> "KOSDAQ"
      [] OTHER -> m

\* params.__dict__ of a dataclass object: its attributes and their values
Dict(obj) == [a \in obj.attrs |-> obj[a]]

\* (variant: params serialised by its type alone)
ParamsObjByType(params) == [value |-> params.kind]

\* the json-safe form of params: __dict__ of an object, a dict itself,
\* str(params) otherwise (here None)
ParamsObj(params) ==
    IF params.kind = "object" THEN Dict(params.obj)
    ELSE IF params.kind = "dict" THEN params.dict
    ELSE [value |-> "None"]

ScanSignature(latest_date, market, top_n, strategy_label, market_mode, params) ==
    [latest_date |-> Str(latest_date), market |-> Upper(market), top_n |-> top_n,
     strategy |-> strategy_label, market_mode |-> market_mode,
     params |-> ParamsObj(params)]

SignatureOf(a) ==
    ScanSignature(a.latest_date, a.market, a.top_n, a.strategy_label,
                  a.market_mode, a.params)

\* the arguments of a call
SigDates ==
    {[type |-> "str", digits |-> "20250102"], [type |-> "int", digits |-> "20250102"],
     [type |-> "str", digits |-> "20250103"]}

SigMarkets == {"KOSPI", "KOSDAQ", "kospi"}

SigTopNs == {[none |-> TRUE, n |-> 0], [none |-> FALSE, n |-> 200]}

StrategyLabels ==
    {"Pullback + Risk/Reward",
     "Vol Compression -> Breakout (Watch + Confirm + VolSurge)"}

MarketModes == {"close_above_ma20", "both"}

ParamsObject(obj) == [kind |-> "object", obj |-> obj]

ParamsNone == [kind |-> "none"]

\* the default ScanParams, each field changed alone, the default as a
\* plain dict, and None
SigParams ==
    {ParamsObject(ScanParams(15)),
     ParamsObject([ScanParams(15) EXCEPT !.tolerance = 40]),
     ParamsObject([ScanParams(15) EXCEPT !.stop_lookback = 11]),
     ParamsObject([ScanParams(15) EXCEPT !.stop_buffer = 6]),
     ParamsObject([ScanParams(15) EXCEPT !.target_lookback = 21]),
     ParamsObject([ScanParams(15) EXCEPT !.min_rr = 16]),
     ParamsObject([ScanParams(15) EXCEPT !.ma5_up_days = 1]),
     [kind |-> "dict", dict |-> Dict(ScanParams(15))],
     ParamsNone}

SigArgs ==
    [latest_date : SigDates, market : SigMarkets, top_n : SigTopNs,
     strategy_label : StrategyLabels, market_mode : MarketModes,
     params : SigParams]

\* two calls of scan_signature
Sign ==
    /\ ~ sigs.called
    /\ \E a \in SigArgs : \E b \in SigArgs :
          sigs' = [called |-> TRUE, via |-> "call", a |-> a, b |-> b,
                   sa |-> SignatureOf(a), sb |-> SignatureOf(b)]
    /\ UNCHANGED <<storeVars, uni, scan, app, daily, io>>

(***************************************************************************)
(* The Scanner tab (app.py) computes the signature of a request from the   *)
(* sidebar values and from the latest date of the universe that            *)
(* build_universe resolved.  A universe is its latest date, its symbols,   *)
(* the column it was ranked by and its Bars (a revision number).           *)
(***************************************************************************)
Universe(latest_date, tickers, rank_by, bars) ==
    [latest_date |-> latest_date, tickers |-> tickers, rank_by |-> rank_by,
     bars |-> bars]

Universes ==
    {Universe("20250102", {"000660", "005930"}, "market_cap", 1),
     Universe("20250102", {"000660", "005930"}, "market_cap", 2),
     Universe("20250102", {"005930", "035420"}, "market_cap", 1),
     Universe("20250102", {"000660", "005930"}, "volume", 1),
     Universe("20250103", {"000660", "005930"}, "market_cap", 1)}

SidebarValues ==
    [market : {"KOSPI", "KOSDAQ"}, top_n : SigTopNs,
     strategy_label : StrategyLabels, market_mode : MarketModes,
     params : {ParamsObject(ScanParams(15)), ParamsObject(ScanParams(16)),
               ParamsNone}]

\* the arguments app.py passes for sidebar values sb and universe u
RequestArgs(sb, u) ==
    [latest_date |-> [type |-> "str", digits |-> u.latest_date],
     market |-> sb.market, top_n |-> sb.top_n,
     strategy_label |-> sb.strategy_label, market_mode |-> sb.market_mode,
     params |-> sb.params]

\* the signatures of two requests
Request ==
    /\ ~ sigs.called
    /\ \E sb1 \in SidebarValues : \E sb2 \in SidebarValues :
       \E u1 \in Universes : \E u2 \in Universes :
          sigs' = [called |-> TRUE, via |-> "app",
                   a |-> RequestArgs(sb1, u1), b |-> RequestArgs(sb2, u2),
                   ua |-> u1, ub |-> u2,
                   sa |-> SignatureOf(RequestArgs(sb1, u1)),
                   sb |-> SignatureOf(RequestArgs(sb2, u2))]
    /\ UNCHANGED <<storeVars, uni, scan, app, daily, io>>

NextSig ==
    \/ Sign
    \/ Request

SpecSig == Init /\ [][NextSig]_vars

(***************************************************************************)
(* Properties of the signature.                                            *)
(***************************************************************************)
ArgNames ==
    {"latest_date", "market", "top_n", "strategy_label", "market_mode", "params"}

Differing(a, b) == {f \in ArgNames : a[f] # b[f]}

Called == sigs.called /\ sigs.via = "call"

\* C18: two calls with identical arguments return the same signature, and
\* two calls that differ in exactly one argument (a single field of the
\* params record included) return different signatures.
C18_CacheDeterminism ==
    Called =>
        /\ sigs.a = sigs.b => sigs.sa = sigs.sb
        /\ Cardinality(Differing(sigs.a, sigs.b)) = 1 => sigs.sa # sigs.sb

\* two markets are the same word up to the case of their letters
Fold(m) ==
    CASE m = "KOSPI" -> "kospi"
      [] m = "KOSDAQ" -> "kosdaq"
      [] OTHER -> m

\* the attribute values params carries, whether as an object or as a dict
Attributes(params) ==
    IF params.kind = "object" THEN [a \in params.obj.attrs |-> params.obj[a]]
    ELSE IF params.kind = "dict" THEN params.dict
    ELSE [a \in {} |-> 0]

SameForm(a, b) ==
    /\ a.latest_date.digits = b.latest_date.digits
    /\ Fold(a.market) = Fold(b.market)
    /\ a.top_n = b.top_n
    /\ a.strategy_label = b.strategy_label
    /\ a.market_mode = b.market_mode
    /\ (a.params.kind = "none") = (b.params.kind = "none")
    /\ Attributes(a.params) = Attributes(b.params)

\* C18 (amended): two calls return the same signature exactly when their
\* arguments agree up to the written form of the date (its str()), the
\* letter case of the market, and the carrier of the params attributes
\* (object or dict); in particular identical arguments give the same
\* signature and a change of any single params field gives another one.
C18_CacheDeterminismUpToForm ==
    Called => (sigs.sa = sigs.sb <=> SameForm(sigs.a, sigs.b))

\* two calls that differ in min_rr alone (1.5 and 1.6), with different
\* signatures
C18_Witness ==
    /\ Called
    /\ Differing(sigs.a, sigs.b) = {"params"}
    /\ sigs.a.params = ParamsObject(ScanParams(15))
    /\ sigs.b.params = ParamsObject(ScanParams(16))
    /\ sigs.sa # sigs.sb

Requested == sigs.called /\ sigs.via = "app"

\* C19: two requests that differ in the universe they scan (symbols, rank
\* column used, or Bars for the same latest date), in a parameter or in
\* the latest date have different signatures.
C19_SignatureCoversInputs ==
    Requested =>
        (sigs.ua # sigs.ub \/ sigs.a.params # sigs.b.params
              \/ sigs.a.latest_date # sigs.b.latest_date
            => sigs.sa # sigs.sb)

(***************************************************************************)
(* Result cache: the files of scan_cache and the Scanner tab that reads    *)
(* and writes them (app.py).                                               *)
(*                                                                         *)
(* app.scans and app.levels are the files scan_<sig>.parquet and           *)
(* levels_<sig>.json by signature; a file is readable with its data, or    *)
(* it is damaged and reading it raises.                                    *)
(***************************************************************************)
MaxRuns == 3

Readable(data) == [ok |-> TRUE, data |-> data]

Damaged == [ok |-> FALSE, data |-> <<>>]

Some(data) == [none |-> FALSE, data |-> data]

\* to_parquet / write_text to the path of sig
Save(dir, sig, data) ==
    [k \in DOMAIN dir \cup {sig} |-> IF k = sig THEN Readable(data) ELSE dir[k]]

\* p.unlink(missing_ok=True)
Unlink(dir, sig) == [k \in DOMAIN dir \ {sig} |-> dir[k]]

\* load_cached_scan: the value returned and the files left behind
LoadCachedScan(dir, sig) ==
    IF sig \notin DOMAIN dir THEN [value |-> NoValue, dir |-> dir]
    ELSE IF dir[sig].ok THEN [value |-> Some(dir[sig].data), dir |-> dir]
    ELSE [value |-> NoValue, dir |-> Unlink(dir, sig)]

\* load_cached_levels: the value returned and the files left behind
LoadCachedLevels(dir, sig) ==
    IF sig \notin DOMAIN dir THEN [value |-> NoValue, dir |-> dir]
    ELSE IF dir[sig].ok THEN [value |-> Some(dir[sig].data), dir |-> dir]
    ELSE [value |-> NoValue, dir |-> Unlink(dir, sig)]

\* scan_df.set_index("ticker")[need].to_dict("index"); rr in hundredths
LevelsOf(out) ==
    [t \in {out[i].ticker : i \in 1..Len(out)} |->
        LET c == out[CHOOSE i \in 1..Len(out) : out[i].ticker = t]
        IN  [entry |-> c.entry, stop |-> c.stop, target |-> c.target,
             rr |-> (c.reward * 100) \div c.risk]]

\* the panel of a request, as each strategy reads it: a symbol that passes
\* every filter of both strategies, or one that passes none
ActivePanel ==
    [uni |-> Universe("20250102", {"005930"}, "market_cap", 1),
     a |-> <<SymbolA("005930", MinHistoryA, FALSE, 95, 110, 100, <<10, 10>>, 90, 120,
                     [ma5 |-> 102, ma5_3ago |-> 100, ma20_5ago |-> 97,
                      ret20 |-> 1200, std20 |-> 100])>>,
     b |-> <<SymbolB("005930", PreGood, 400, 300, 99, 101, 500, <<8, 10>>, 100, 18,
                     90, 100, 0 - 500)>>]

QuietPanel ==
    [uni |-> Universe("20250102", {"005930"}, "market_cap", 1),
     a |-> <<SymbolA("005930", MinHistoryA, FALSE, 105, 110, 100, <<10, 10>>, 90, 120,
                     [ma5 |-> 102, ma5_3ago |-> 100, ma20_5ago |-> 97,
                      ret20 |-> 1200, std20 |-> 100])>>,
     b |-> <<SymbolB("005930", [PreGood EXCEPT !.n = MinHistoryB - 1], 400, 300, 99,
                     101, 500, <<8, 10>>, 100, 18, 90, 100, 0 - 500)>>]

AppPanels == {ActivePanel, QuietPanel}

AppSidebar ==
    [market : {"KOSPI"}, top_n : {[none |-> TRUE, n |-> 0]},
     strategy_label : StrategyLabels, market_mode : {"close_above_ma20"},
     params : {ParamsObject(ScanParams(15)), ParamsObject(ScanParams(16))}]

\* strategy_by_label[strategy_label].scan(df, params)
StrategyScan(strategy_label, panel, cap, params) ==
    IF strategy_label = "Pullback + Risk/Reward"
    THEN PullbackScan(panel.a, params.obj)
    ELSE VolScan(panel.b, TRUE, cap, params.obj)

\* what a file of sig is before a run
EntryState(dir, sig) ==
    IF sig \notin DOMAIN dir THEN "absent"
    ELSE IF dir[sig].ok THEN "readable" ELSE "damaged"

\* one run of the Scanner tab: signature, market filter ok, cache lookup,
\* scan, levels, save.  last.fresh is what the strategy returns or raises
\* on the panel of this run, with and without the market caps of pykrx.
ScannerRun ==
    /\ app.runs < MaxRuns
    /\ \E sb \in AppSidebar : \E panel \in AppPanels : \E ok \in BOOLEAN :
       \E cap \in BOOLEAN :
          LET sig == SignatureOf(RequestArgs(sb, panel.uni))
              cached == LoadCachedScan(app.scans, sig)
              cached_levels == LoadCachedLevels(app.levels, sig)
              res == IF ~ cached.value.none THEN ScanReturn(cached.value.data)
                     ELSE StrategyScan(sb.strategy_label, panel, cap, sb.params)
              before == [scan |-> EntryState(app.scans, sig),
                         levels |-> EntryState(app.levels, sig)]
              ran(kind, loaded) ==
                  [kind |-> kind, sig |-> sig, before |-> before, loaded |-> loaded,
                   cached |-> IF loaded THEN cached.value ELSE NoValue,
                   cached_levels |-> IF loaded THEN cached_levels.value ELSE NoValue,
                   fresh |-> {StrategyScan(sb.strategy_label, panel, c, sb.params) :
                                 c \in BOOLEAN}]
          IN  IF sig \in app.scan_sig
              THEN app' = [app EXCEPT !.runs = @ + 1, !.last = ran("same", FALSE)]
              ELSE IF ~ ok
              THEN app' = [app EXCEPT !.scan_sig = {sig}, !.scan_df = NoValue,
                                      !.scan_levels = EmptyDir,
                                      !.runs = @ + 1, !.last = ran("blocked", FALSE)]
              ELSE IF ~ cached.value.none /\ ~ cached_levels.value.none
              THEN app' = [app EXCEPT !.scan_sig = {sig},
                                      !.scan_df = cached.value,
                                      !.scan_levels = cached_levels.value.data,
                                      !.runs = @ + 1, !.last = ran("hit", TRUE)]
              ELSE IF res.kind = "raise"
              THEN app' = [app EXCEPT !.scans = cached.dir,
                                      !.levels = cached_levels.dir,
                                      !.scan_sig = {sig},
                                      !.runs = @ + 1, !.last = ran("raise", TRUE)]
              ELSE app' = [app EXCEPT !.scans = Save(cached.dir, sig, res.out),
                                      !.levels = Save(cached_levels.dir, sig,
                                                      LevelsOf(res.out)),
                                      !.scan_sig = {sig},
                                      !.scan_df = Some(res.out),
                                      !.scan_levels = LevelsOf(res.out),
                                      !.runs = @ + 1, !.last = ran("scan", TRUE)]
    /\ UNCHANGED <<storeVars, uni, scan, sigs, daily, io>>

\* a stored file becomes unreadable (a write cut short, a damaged disk)
Damage ==
    /\ \/ \E sig \in DOMAIN app.scans :
             /\ app.scans[sig].ok
             /\ app' = [app EXCEPT !.scans[sig] = Damaged,
                                   !.last = [kind |-> "damage"]]
       \/ \E sig \in DOMAIN app.levels :
             /\ app.levels[sig].ok
             /\ app' = [app EXCEPT !.levels[sig] = Damaged,
                                   !.last = [kind |-> "damage"]]
    /\ UNCHANGED <<storeVars, uni, scan, sigs, daily, io>>

\* a new browser session: session_state starts without scan_sig
NewSession ==
    /\ app.scan_sig # {}
    /\ app' = [app EXCEPT !.scan_sig = {}, !.scan_df = NoValue,
                          !.scan_levels = EmptyDir, !.last = [kind |-> "session"]]
    /\ UNCHANGED <<storeVars, uni, scan, sigs, daily, io>>

NextApp ==
    \/ ScannerRun
    \/ Damage
    \/ NewSession

SpecApp == Init /\ [][NextApp]_vars

(***************************************************************************)
(* Properties of the cache files.                                          *)
(***************************************************************************)
\* the last step was a run that looked its signature up in the cache
Looked == app.last.kind \in {"hit", "raise", "scan"}

StoredReadable(dir, sig) == sig \in DOMAIN dir /\ dir[sig].ok

\* C20: when a run finds the scan file or the levels file of its signature
\* damaged, the lookup of that file returns None, and after the run both
\* files of the signature are present and readable.
C20_CorruptionHandling ==
    Looked /\ "damaged" \in {app.last.before.scan, app.last.before.levels} =>
        /\ app.last.before.scan = "damaged" => app.last.cached.none
        /\ app.last.before.levels = "damaged" => app.last.cached_levels.none
        /\ StoredReadable(app.scans, app.last.sig)
        /\ StoredReadable(app.levels, app.last.sig)

\* the last run served the cached entry without scanning
Served == app.last.kind = "hit"

\* C21: whenever a run serves a cached (Candidate list, levels) entry, the
\* list is what the selected strategy computes now from the panel and
\* params of the run, and the levels are the {entry, stop, target, rr}
\* projection of the list.
C21_PureMemoization ==
    Served =>
        /\ \E r \in app.last.fresh : r.kind = "return" /\ r.out = app.scan_df.data
        /\ app.scan_levels = LevelsOf(app.scan_df.data)

(***************************************************************************)
(* Daily refresh: core/auto_daily.py and core/downloader_daily.py.         *)
(* daily.lock and daily.done are the files data/_locks/daily_<day>.lock    *)
(* and .done of one day, daily.files the snapshot CSV of each market for   *)
(* that day.  A trigger is a session calling try_run_daily_once_async; a   *)
(* worker is the thread such a call starts.  Each is a process with a      *)
(* position, and a step is what it does between two file system calls.     *)
(***************************************************************************)
MaxCalls == 4

Triggers == {1, 2}

\* download_daily_all: min_rows_by_market
MinRowsByMarket == [KOSPI |-> 500, KOSDAQ |-> 1200]

\* what pykrx answers for one market: an exception, or a table of rows
Fetches(m) ==
    {[error |-> TRUE, rows |-> 0]} \cup
    {[error |-> FALSE, rows |-> r] :
        r \in {0, MinRowsByMarket[m] - 1, MinRowsByMarket[m]}}

DownloadResult(ok, rows, message, file) ==
    [ok |-> ok, rows |-> rows, message |-> message, file |-> file]

\* download_daily_one_market with force = False: the result and the file
\* it leaves at out_path
DownloadDailyOneMarket(file, fetch, min_rows) ==
    IF file.exists THEN DownloadResult(TRUE, 0, "already exists", file)
    ELSE IF fetch.error THEN DownloadResult(FALSE, 0, "error", file)
    ELSE IF fetch.rows = 0 THEN DownloadResult(FALSE, 0, "ohlcv is empty", file)
    ELSE IF fetch.rows < min_rows
         THEN DownloadResult(FALSE, fetch.rows, "too few rows",
                             [exists |-> TRUE, rows |-> fetch.rows])
    ELSE DownloadResult(TRUE, fetch.rows, "ok",
                        [exists |-> TRUE, rows |-> fetch.rows])

\* download_daily_all: one result per market
DownloadDailyAll(files, fetch) ==
    [m \in DOMAIN files |->
        DownloadDailyOneMarket(files[m], fetch[m], MinRowsByMarket[m])]

\* os.open(lp, O_CREAT | O_EXCL | O_WRONLY) succeeds iff lp does not exist
LockShared(lock) == TRUE

LockFree(lock) == ~ lock

\* the finally clause of worker(): lp.unlink(missing_ok=True)
ReleaseLockIfOk(w, lock) == IF w.outcome = "ok" THEN FALSE ELSE lock

ReleaseLock(w, lock) == FALSE

Running(w) == w.pc # "finished"

\* try_run_daily_once_async, lines 24-29: the done marker is looked up
CheckDone(t) ==
    /\ daily.triggers[t] = "idle"
    /\ daily.calls < MaxCalls
    /\ IF daily.done
       THEN daily' = [daily EXCEPT
                !.calls = @ + 1,
                !.last = [kind |-> "return", trigger |-> t, value |-> FALSE,
                          saw_done |-> TRUE, saw_lock |-> FALSE,
                          started |-> FALSE]]
       ELSE daily' = [daily EXCEPT
                !.calls = @ + 1,
                !.triggers[t] = "open",
                !.last = [kind |-> "checked", trigger |-> t]]
    /\ UNCHANGED <<storeVars, uni, scan, sigs, app, io>>

\* try_run_daily_once_async, lines 32-55: the lock file is created
\* exclusively and the worker thread started, or the call returns False
OpenLock(t) ==
    /\ daily.triggers[t] = "open"
    /\ IF LockFree(daily.lock)
       THEN daily' = [daily EXCEPT
                !.lock = TRUE,
                !.triggers[t] = "idle",
                !.workers = Append(@, [pc |-> "download", outcome |-> "none",
                                       by |-> t,
                                       done_at_start |-> daily.done]),
                !.last = [kind |-> "return", trigger |-> t, value |-> TRUE,
                          saw_done |-> FALSE, saw_lock |-> FALSE,
                          started |-> TRUE]]
       ELSE daily' = [daily EXCEPT
                !.triggers[t] = "idle",
                !.last = [kind |-> "return", trigger |-> t, value |-> FALSE,
                          saw_done |-> FALSE, saw_lock |-> TRUE,
                          started |-> FALSE]]
    /\ UNCHANGED <<storeVars, uni, scan, sigs, app, io>>

\* worker(), lines 41-42: download_daily_all returns its results or raises
WorkerDownload(i) ==
    /\ i \in DOMAIN daily.workers
    /\ daily.workers[i].pc = "download"
    /\ \/ \E fetch \in [DOMAIN daily.files -> UNION {Fetches(m) : m \in DOMAIN daily.files}] :
            /\ \A m \in DOMAIN daily.files : fetch[m] \in Fetches(m)
            /\ LET res == DownloadDailyAll(daily.files, fetch)
                   ok == \A m \in DOMAIN res : res[m].ok
               IN daily' = [daily EXCEPT
                     !.files = [m \in DOMAIN res |-> res[m].file],
                     !.workers[i].pc = IF ok THEN "mark" ELSE "release",
                     !.workers[i].outcome = IF ok THEN "ok" ELSE "failed",
                     !.last = [kind |-> "download", worker |-> i, res |-> res]]
       \/ daily' = [daily EXCEPT
             !.workers[i].pc = "release",
             !.workers[i].outcome = "raised",
             !.last = [kind |-> "download", worker |-> i, res |-> <<>>]]
    /\ UNCHANGED <<storeVars, uni, scan, sigs, app, io>>

\* worker(), lines 44-45: the done marker is written
WorkerMark(i) ==
    /\ i \in DOMAIN daily.workers
    /\ daily.workers[i].pc = "mark"
    /\ daily' = [daily EXCEPT
          !.done = TRUE,
          !.workers[i].pc = "release",
          !.last = [kind |-> "mark", worker |-> i]]
    /\ UNCHANGED <<storeVars, uni, scan, sigs, app, io>>

\* worker(), lines 46-51: the lock file is removed and the thread ends
WorkerRelease(i) ==
    /\ i \in DOMAIN daily.workers
    /\ daily.workers[i].pc = "release"
    /\ daily' = [daily EXCEPT
          !.lock = ReleaseLock(daily.workers[i], daily.lock),
          !.workers[i].pc = "finished",
          !.last = [kind |-> "release", worker |-> i]]
    /\ UNCHANGED <<storeVars, uni, scan, sigs, app, io>>

WorkerStep ==
    \E i \in 1..MaxCalls : WorkerDownload(i) \/ WorkerMark(i) \/ WorkerRelease(i)

NextDaily ==
    \/ \E t \in Triggers : CheckDone(t)
    \/ \E t \in Triggers : OpenLock(t)
    \/ \E i \in 1..MaxCalls : WorkerDownload(i)
    \/ \E i \in 1..MaxCalls : WorkerMark(i)
    \/ \E i \in 1..MaxCalls : WorkerRelease(i)

SpecDaily == Init /\ [][NextDaily]_vars

\* a started thread runs until it ends
SpecDailyFair == SpecDaily /\ WF_vars(WorkerStep)

(***************************************************************************)
(* Properties of the daily refresh.                                        *)
(***************************************************************************)
RunningWorkers == {i \in DOMAIN daily.workers : Running(daily.workers[i])}

Returned == daily.last.kind = "return"

\* C23: at most one refresh worker runs at any time, and a call that finds
\* the done marker or the lock file returns False at once, without
\* starting a worker and without waiting or trying again.
C23_MutualExclusion ==
    /\ Cardinality(RunningWorkers) <= 1
    /\ Returned /\ (daily.last.saw_done \/ daily.last.saw_lock) =>
          /\ daily.last.value = FALSE
          /\ ~ daily.last.started
          /\ daily.triggers[daily.last.trigger] = "idle"

\* a call has just returned False because another call's worker holds the
\* lock
C23_Witness ==
    /\ Returned /\ daily.last.saw_lock
    /\ \E i \in RunningWorkers : daily.workers[i].by # daily.last.trigger

\* C28: no worker is started once the done marker of the day exists, so at
\* most one worker of a day ends with the marker written.
C28_OncePerDay ==
    /\ \A i \in DOMAIN daily.workers : ~ daily.workers[i].done_at_start
    /\ Cardinality({i \in DOMAIN daily.workers :
                      daily.workers[i].outcome = "ok"}) <= 1

NoWorkerRunning == RunningWorkers = {}

C30_DoneCertifiesData ==
    daily.done =>
        \A m \in DOMAIN daily.files :
            daily.files[m].exists /\ daily.files[m].rows >= MinRowsByMarket[m]

(***************************************************************************)
(* Concurrent readers and writers of the shared files.  io.files holds the *)
(* panel parquet of one market, the scan and levels files of one           *)
(* signature and the daily snapshot CSV of day 2; the snapshot of day 1 is *)
(* on disk throughout.  A file that is written in place (to_parquet,       *)
(* write_text) is truncated when it is opened and complete when it is      *)
(* closed; between the two a reader finds it half-written.  writing is the *)
(* set of <<process, data>> that have the directory entry open for         *)
(* writing, and mixed says that two of them wrote different data over one  *)
(* another.                                                                *)
(***************************************************************************)
Procs == {1, 2}

Jobs == {"scanner", "panel", "download"}

FirstDay == "20250102"

SecondDay == "20250103"

\* open(path, "wb") by to_parquet, open(path, "w") by write_text
OpenTrunc(file, p, data) ==
    [state |-> "partial", data |-> <<>>,
     writing |-> file.writing \cup {<<p, data>>},
     mixed |-> file.mixed \/ \E w \in file.writing : w[2] # data]

\* the close that ends an in-place write.  A handle whose directory entry
\* was unlinked or replaced meanwhile changes nothing under the path; the
\* last of several writers of different data leaves its own bytes or a
\* mixture of both (damaged).
CloseWrite(file, p, data, damaged) ==
    IF <<p, data>> \notin file.writing THEN file
    ELSE IF file.writing # {<<p, data>>}
         THEN [file EXCEPT !.writing = @ \ {<<p, data>>}]
    ELSE IF file.mixed /\ damaged
         THEN [state |-> "partial", data |-> <<>>, writing |-> {}, mixed |-> FALSE]
    ELSE [state |-> "whole", data |-> data, writing |-> {}, mixed |-> FALSE]

\* _atomic_write_csv: the temporary file is complete when os.replace gives
\* it the name of the target
ReplaceFile(file, data) ==
    [state |-> "whole", data |-> data, writing |-> {}, mixed |-> FALSE]

\* load_cached_scan, load_cached_levels: None for a missing file; a file
\* that cannot be parsed is unlinked and None returned
LoadCached(file) ==
    IF file.state = "whole" THEN [value |-> Some(file.data), file |-> file]
    ELSE [value |-> NoValue, file |-> AbsentFile]

ReadOf(p, name, file) == [kind |-> "read", by |-> p, file |-> name, saw |-> file.state]

\* the request both Scanner sessions make: one signature, one panel
IoSidebar ==
    [market |-> "KOSPI", top_n |-> [none |-> TRUE, n |-> 0],
     strategy_label |-> "Vol Compression -> Breakout (Watch + Confirm + VolSurge)",
     market_mode |-> "close_above_ma20", params |-> ParamsObject(ScanParams(15))]

\* what strategy.scan returns for the request, with and without the market
\* caps of pykrx
IoScans ==
    {StrategyScan(IoSidebar.strategy_label, ActivePanel, cap, IoSidebar.params) :
        cap \in BOOLEAN}

\* a process takes up a job
Start(p) ==
    /\ io.procs[p].pc = "idle"
    /\ \E job \in Jobs :
          io' = [io EXCEPT
                   !.procs[p].job = job,
                   !.procs[p].pc = CASE job = "scanner" -> "load_scan"
                                     [] job = "panel" -> "read_panel"
                                     [] OTHER -> "temp",
                   !.last = [kind |-> "start", by |-> p]]
    /\ UNCHANGED <<storeVars, uni, scan, sigs, app, daily>>

\* app.py line 152: cached = load_cached_scan(sig)
LoadScan(p) ==
    /\ io.procs[p].pc = "load_scan"
    /\ LET r == LoadCached(io.files.scan)
       IN io' = [io EXCEPT
                   !.files.scan = r.file,
                   !.procs[p].cached = r.value,
                   !.procs[p].pc = "load_levels",
                   !.last = ReadOf(p, "scan", io.files.scan)]
    /\ UNCHANGED <<storeVars, uni, scan, sigs, app, daily>>

\* app.py lines 153-157: cached_levels = load_cached_levels(sig); a
\* complete entry is served as it is
LoadLevels(p) ==
    /\ io.procs[p].pc = "load_levels"
    /\ LET r == LoadCached(io.files.levels)
           hit == ~ io.procs[p].cached.none /\ ~ r.value.none
       IN io' = [io EXCEPT
                   !.files.levels = r.file,
                   !.procs[p].cached_levels = r.value,
                   !.procs[p].pc = IF hit THEN "done" ELSE "scan",
                   !.last = ReadOf(p, "levels", io.files.levels)]
    /\ UNCHANGED <<storeVars, uni, scan, sigs, app, daily>>

\* app.py lines 159-167: the scan, unless the scan file was there, and the
\* levels of its result
ScanStep(p) ==
    /\ io.procs[p].pc = "scan"
    /\ \E res \in IF io.procs[p].cached.none THEN IoScans
                  ELSE {ScanReturn(io.procs[p].cached.data)} :
          io' = [io EXCEPT
                   !.procs[p].pc = IF res.kind = "return" THEN "open" ELSE "raised",
                   !.procs[p].file = "scan",
                   !.procs[p].pending = res.out,
                   !.procs[p].levels = LevelsOf(res.out),
                   !.last = [kind |-> "scan", by |-> p]]
    /\ UNCHANGED <<storeVars, uni, scan, sigs, app, daily>>

\* update_parquet_cache_for_market, lines 185-200: the cached panel is
\* read; read_parquet raises on a file that cannot be parsed
ReadPanel(p) ==
    /\ io.procs[p].pc = "read_panel"
    /\ LET f == io.files.panel
       IN io' = [io EXCEPT
                   !.procs[p].cached = IF f.state = "whole" THEN Some(f.data)
                                       ELSE Some({}),
                   !.procs[p].pc = IF f.state = "partial" THEN "raised" ELSE "merge",
                   !.last = ReadOf(p, "panel", f)]
    /\ UNCHANGED <<storeVars, uni, scan, sigs, app, daily>>

\* update_parquet_cache_for_market, lines 202-263: the snapshots whose date
\* the panel does not hold are read and merged; the panel is written only
\* if there were any
MergeNew(p) ==
    /\ io.procs[p].pc = "merge"
    /\ LET daily_files == {FirstDay} \cup
                 (IF io.files.snapshot.state = "absent" THEN {}
                  ELSE {io.files.snapshot.data})
           new_files == daily_files \ io.procs[p].cached.data
           merged == io.procs[p].cached.data \cup new_files
       IN io' = [io EXCEPT
                   !.procs[p].pc = IF new_files = {} THEN "done" ELSE "open",
                   !.procs[p].file = "panel",
                   !.procs[p].pending = merged,
                   !.last = IF SecondDay \in new_files
                            THEN ReadOf(p, "snapshot", io.files.snapshot)
                            ELSE [kind |-> "merge", by |-> p]]
    /\ UNCHANGED <<storeVars, uni, scan, sigs, app, daily>>

\* save_cached_scan, save_cached_levels, merged.to_parquet(cache_path): the
\* file is opened for writing under its own name
WriteOpen(p) ==
    /\ io.procs[p].pc = "open"
    /\ LET name == io.procs[p].file
       IN io' = [io EXCEPT
                   !.files[name] = OpenTrunc(@, p, io.procs[p].pending),
                   !.procs[p].pc = "close",
                   !.last = [kind |-> "open", by |-> p, file |-> name]]
    /\ UNCHANGED <<storeVars, uni, scan, sigs, app, daily>>

\* the write is complete and the file closed; after the scan file the
\* levels file is written (app.py lines 170-171)
WriteClose(p) ==
    /\ io.procs[p].pc = "close"
    /\ LET name == io.procs[p].file
       IN \E damaged \in BOOLEAN :
            io' = [io EXCEPT
                     !.files[name] = CloseWrite(@, p, io.procs[p].pending, damaged),
                     !.procs[p].pc = IF name = "scan" THEN "open" ELSE "done",
                     !.procs[p].file = IF name = "scan" THEN "levels" ELSE name,
                     !.procs[p].pending = IF name = "scan" THEN io.procs[p].levels
                                          ELSE @,
                     !.last = [kind |-> "close", by |-> p, file |-> name]]
    /\ UNCHANGED <<storeVars, uni, scan, sigs, app, daily>>

\* download_daily_one_market, lines 134-135, and _atomic_write_csv, lines
\* 54-63: unless the snapshot exists, its rows go to a temporary file
WriteTemp(p) ==
    /\ io.procs[p].pc = "temp"
    /\ io' = [io EXCEPT
                !.procs[p].pc = IF io.files.snapshot.state = "absent"
                                THEN "replace" ELSE "done",
                !.procs[p].pending = SecondDay,
                !.last = [kind |-> "temp", by |-> p]]
    /\ UNCHANGED <<storeVars, uni, scan, sigs, app, daily>>

\* _atomic_write_csv, line 64: os.replace(tmp_path, out_path)
Replace(p) ==
    /\ io.procs[p].pc = "replace"
    /\ io' = [io EXCEPT
                !.files.snapshot = ReplaceFile(@, io.procs[p].pending),
                !.procs[p].pc = "done",
                !.last = [kind |-> "replace", by |-> p]]
    /\ UNCHANGED <<storeVars, uni, scan, sigs, app, daily>>

NextIo ==
    \/ \E p \in Procs : Start(p)
    \/ \E p \in Procs : LoadScan(p)
    \/ \E p \in Procs : LoadLevels(p)
    \/ \E p \in Procs : ScanStep(p)
    \/ \E p \in Procs : ReadPanel(p)
    \/ \E p \in Procs : MergeNew(p)
    \/ \E p \in Procs : WriteOpen(p)
    \/ \E p \in Procs : WriteClose(p)
    \/ \E p \in Procs : WriteTemp(p)
    \/ \E p \in Procs : Replace(p)

SpecIo == Init /\ [][NextIo]_vars

(***************************************************************************)
(* Properties of the shared files.                                         *)
(***************************************************************************)
BothFinished == \A p \in Procs : io.procs[p].pc \in {"done", "raised"}

BothJob(job) == \A p \in Procs : io.procs[p].job = job

\* the entries one Scanner session alone leaves for the request
SingleWriterEntries ==
    {[scan |-> r.out, levels |-> LevelsOf(r.out)] : r \in IoScans}

\* C24: when two processes have both finished updating the panel from the
\* same snapshots, or computing and storing the cache entry of the same
\* signature, the panel (the entry) on disk is the one a single writer
\* leaves.
C24_WritersConverge ==
    /\ BothFinished /\ BothJob("panel") =>
          /\ io.files.panel.state = "whole"
          /\ io.files.panel.data = {FirstDay}
    /\ BothFinished /\ BothJob("scanner") =>
          /\ io.files.scan.state = "whole"
          /\ io.files.levels.state = "whole"
          /\ [scan |-> io.files.scan.data, levels |-> io.files.levels.data]
                \in SingleWriterEntries

\* C25: a reader never finds the panel, the scan file, the levels file or
\* a daily snapshot half-written.
C25_AtomicWrites ==
    io.last.kind = "read" => io.last.saw # "partial"

====
